---- MODULE Spec2Model ----
(***************************************************************************)
(* Cascade & Coast Kitchen: the menu acquisition pipeline                  *)
(* (src/src/services/menu.service.ts) and the client-side list utilities   *)
(* (src/src/lib/utils.ts) as a state machine.                              *)
(*                                                                         *)
(* Strings are TLA+ strings (Len, SubSeq and \o work on them); prices are  *)
(* integers in hundredths of a dollar; a value that JavaScript types as    *)
(* "string | number | undefined" is a tagged record (Num, Str, Undef).     *)
(***************************************************************************)
EXTENDS Integers, Sequences, FiniteSets, TLC

(***************************************************************************)
(* Strings                                                                 *)
(***************************************************************************)
UpperChars == "ABCDEFGHIJKLMNOPQRSTUVWXYZ"
LowerChars == "abcdefghijklmnopqrstuvwxyz"
DigitChars == "0123456789"
\* Primary collation order of the characters the model's titles use.
CollationChars == " 0123456789abcdefghijklmnopqrstuvwxyz"

CharAt(s, i) == SubSeq(s, i, i)

\* Position of the one-character string ch in alphabet, 0 when absent.
IndexIn(alphabet, ch) ==
  IF \E i \in 1..Len(alphabet) : CharAt(alphabet, i) = ch
  THEN CHOOSE i \in 1..Len(alphabet) : CharAt(alphabet, i) = ch
  ELSE 0

LowerChar(ch) ==
  LET k == IndexIn(UpperChars, ch) IN IF k = 0 THEN ch ELSE CharAt(LowerChars, k)

RECURSIVE ToLowerCase(_)
ToLowerCase(s) ==
  IF s = "" THEN "" ELSE LowerChar(CharAt(s, 1)) \o ToLowerCase(SubSeq(s, 2, Len(s)))

\* String.prototype.includes
Includes(hay, needle) ==
  \E i \in 1..(Len(hay) - Len(needle) + 1) : SubSeq(hay, i, i + Len(needle) - 1) = needle

StartsWith(s, prefix) ==
  Len(s) >= Len(prefix) /\ SubSeq(s, 1, Len(prefix)) = prefix

RECURSIVE TrimStart(_)
TrimStart(s) ==
  IF s # "" /\ CharAt(s, 1) = " " THEN TrimStart(SubSeq(s, 2, Len(s))) ELSE s

RECURSIVE TrimEnd(_)
TrimEnd(s) ==
  IF s # "" /\ CharAt(s, Len(s)) = " " THEN TrimEnd(SubSeq(s, 1, Len(s) - 1)) ELSE s

\* String.prototype.trim
Trim(s) == TrimEnd(TrimStart(s))

Sign(n) == IF n < 0 THEN -1 ELSE IF n > 0 THEN 1 ELSE 0

\* First index at which the two strings differ after mapping each character
\* with LowerChar (0 when one is a prefix of the other under that mapping).
FirstPrimaryDiff(a, b) ==
  LET m == IF Len(a) < Len(b) THEN Len(a) ELSE Len(b)
      D == {i \in 1..m : LowerChar(CharAt(a, i)) # LowerChar(CharAt(b, i))}
  IN IF D = {} THEN 0 ELSE CHOOSE i \in D : \A j \in D : i <= j

\* String.prototype.localeCompare for letters, digits and spaces: the base
\* letters decide first, case-insensitively (space < digit < letter); the
\* shorter string precedes its extensions; between strings that differ only
\* in case, lower case precedes upper case at the first difference.
LocaleCompare(a, b) ==
  LET p == FirstPrimaryDiff(a, b)
      m == IF Len(a) < Len(b) THEN Len(a) ELSE Len(b)
      C == {i \in 1..m : CharAt(a, i) # CharAt(b, i)}
  IN IF p # 0
     THEN Sign(IndexIn(CollationChars, LowerChar(CharAt(a, p)))
               - IndexIn(CollationChars, LowerChar(CharAt(b, p))))
     ELSE IF Len(a) # Len(b) THEN Sign(Len(a) - Len(b))
     ELSE IF C = {} THEN 0
     ELSE LET i == CHOOSE k \in C : \A j \in C : k <= j
          IN IF IndexIn(LowerChars, CharAt(a, i)) # 0 THEN -1 ELSE 1

\* Number -> decimal string for the non-negative integers raw ids use.
RECURSIVE NatToString(_)
NatToString(n) ==
  IF n < 10 THEN CharAt(DigitChars, n + 1)
  ELSE NatToString(n \div 10) \o CharAt(DigitChars, (n % 10) + 1)

(***************************************************************************)
(* JavaScript values of mixed type                                         *)
(***************************************************************************)
Num(n) == [t |-> "num", n |-> n, s |-> ""]
Str(s) == [t |-> "str", n |-> 0, s |-> s]
Undef  == [t |-> "undef", n |-> 0, s |-> ""]
Null   == [t |-> "null", n |-> 0, s |-> ""]
\* A number that is not finite: NaN, Infinity or -Infinity.
NotFinite == [t |-> "nonfinite", n |-> 0, s |-> ""]
\* A value of any other JSON type (boolean, object, array).
Other  == [t |-> "other", n |-> 0, s |-> ""]

\* MenuItem.price: number | null.
NoPrice  == [known |-> FALSE, v |-> 0]
Price(n) == [known |-> TRUE, v |-> n]

\* MenuItem.imageUrl when absent.
NoImage == "undefined"

(***************************************************************************)
(* Configuration: src/lib/constants                                        *)
(***************************************************************************)
MENU_CATEGORIES ==
  <<"burgers", "sandwiches", "sides", "cocktails", "beverages", "desserts", "mains">>

Categories == {MENU_CATEGORIES[i] : i \in 1..Len(MENU_CATEGORIES)}

CATEGORY_ENDPOINTS ==
  [burgers    |-> <<"/burgers">>,
   sandwiches |-> <<"/sandwiches", "/bbqs">>,
   sides      |-> <<"/fried-chicken", "/bbqs", "/porks">>,
   cocktails  |-> <<"/drinks">>,
   beverages  |-> <<"/drinks">>,
   desserts   |-> <<"/desserts", "/chocolates", "/ice-cream">>,
   mains      |-> <<"/steaks", "/porks", "/bbqs">>]

CATEGORY_KEYWORDS ==
  [burgers    |-> <<"burger", "cheeseburger", "patty", "smash">>,
   sandwiches |-> <<"sandwich", "panini", "club", "wrap", "sub">>,
   sides      |-> <<"fries", "rings", "sticks", "bites", "wings", "slaw">>,
   cocktails  |-> <<"cocktail", "spritz", "old fashioned", "martini", "margarita",
                    "mojito", "negroni", "manhattan">>,
   beverages  |-> <<"coffee", "tea", "soda", "juice", "beer", "wine", "latte",
                    "cappuccino">>,
   desserts   |-> <<"cake", "pie", "dessert", "brownie", "ice cream", "torte",
                    "cheesecake", "sweet">>,
   mains      |-> <<"steak", "salmon", "rib", "pasta", "chicken", "pork", "shrimp",
                    "prime">>]

MAX_ITEMS_PER_CATEGORY == 9

FALLBACK_DESCRIPTION == "Chef-crafted for Cascade & Coast Kitchen guests."

(***************************************************************************)
(* Normalization: src/services/menu.service.ts                             *)
(***************************************************************************)
\* A raw record of the upstream API as JSON.parse delivers it.
Raw(id, name, dsc, price, img) ==
  [id |-> id, name |-> name, dsc |-> dsc, price |-> price, img |-> img]

OptionalString(v) == v.t \in {"str", "undef"}
StringOrNumber(v) == v.t \in {"str", "num"}

\* RawMenuItemSchema: id is required; every other field is optional; unknown
\* fields pass through.  A record that has no rate or country field at all
\* leaves them undefined.
RawMenuItemSchema(raw) ==
  /\ StringOrNumber(raw.id)
  /\ OptionalString(raw.name)
  /\ OptionalString(raw.dsc)
  /\ raw.price.t \in {"str", "num", "undef"}
  /\ OptionalString(raw.img)
  /\ ("rate" \in DOMAIN raw => raw.rate.t \in {"str", "num", "undef"})
  /\ ("country" \in DOMAIN raw => OptionalString(raw.country))

\* matchesCategory without the keyword test: every title matches.
matchesCategoryAny(title, category) == TRUE

matchesCategory(title, category) ==
  LET keywords == CATEGORY_KEYWORDS[category]
      haystack == ToLowerCase(title)
  IN IF Len(keywords) = 0 THEN TRUE
     ELSE \E k \in 1..Len(keywords) : Includes(haystack, keywords[k])

\* value.replace(/[^0-9.]/g, '')
RECURSIVE Sanitize(_)
Sanitize(s) ==
  IF s = "" THEN ""
  ELSE LET ch == CharAt(s, 1)
           rest == Sanitize(SubSeq(s, 2, Len(s)))
       IN IF ch = "." \/ IndexIn(DigitChars, ch) # 0 THEN ch \o rest ELSE rest

RECURSIVE DigitsPrefixLen(_)
DigitsPrefixLen(s) ==
  IF s # "" /\ IndexIn(DigitChars, CharAt(s, 1)) # 0
  THEN 1 + DigitsPrefixLen(SubSeq(s, 2, Len(s)))
  ELSE 0

RECURSIVE DigitsValue(_)
DigitsValue(s) ==
  IF s = "" THEN 0
  ELSE 10 * DigitsValue(SubSeq(s, 1, Len(s) - 1)) + (IndexIn(DigitChars, CharAt(s, Len(s))) - 1)

\* Number.parseFloat of a string of digits and points, in hundredths: the
\* longest prefix "digits [. digits]" is read (fraction digits past the second
\* are dropped by the unit the model counts in); a string with no digit in
\* that prefix is NaN, which the caller maps to NoPrice.
ParseFloat(s) ==
  LET k == DigitsPrefixLen(s)
      afterInt == SubSeq(s, k + 1, Len(s))
      hasPoint == afterInt # "" /\ CharAt(afterInt, 1) = "."
      fracAll == IF hasPoint THEN SubSeq(afterInt, 2, Len(afterInt)) ELSE ""
      f == DigitsPrefixLen(fracAll)
      frac2 == SubSeq(fracAll \o "00", 1, 2)
      fracVal == IF f = 0 THEN 0
                 ELSE IF f = 1 THEN 10 * DigitsValue(SubSeq(fracAll, 1, 1))
                 ELSE DigitsValue(frac2)
  IN IF k = 0 /\ f = 0 THEN NoPrice
     ELSE Price(100 * DigitsValue(SubSeq(s, 1, k)) + fracVal)

\* parsePrice that reads a price it cannot parse as 0 (Number(...) || 0).
parsePriceOrZero(value) ==
  IF value.t = "num" THEN Price(value.n)
  ELSE IF value.t = "str"
  THEN (IF ParseFloat(Sanitize(value.s)).known THEN ParseFloat(Sanitize(value.s))
        ELSE Price(0))
  ELSE Price(0)

\* typeof value === 'number' holds of the non-finite numbers too; they fail
\* Number.isFinite.
parsePrice(value) ==
  IF value.t = "num" THEN Price(value.n)
  ELSE IF value.t = "nonfinite" THEN NoPrice
  ELSE IF value.t = "str" THEN ParseFloat(Sanitize(value.s))
  ELSE NoPrice

isValidImage(url) ==
  /\ url.t = "str"
  /\ url.s # ""
  /\ (StartsWith(url.s, "http://") \/ StartsWith(url.s, "https://"))

buildDescription(raw) ==
  LET dish == IF raw.dsc.t = "str" THEN Trim(raw.dsc.s) ELSE ""
      venue == IF raw.name.t = "str" THEN Trim(raw.name.s) ELSE ""
  IN IF dish # "" /\ venue # "" /\ ~Includes(ToLowerCase(venue), ToLowerCase(dish))
     THEN dish \o " from " \o venue \o "."
     ELSE IF venue # "" THEN "Featured by " \o venue \o "."
     ELSE FALLBACK_DESCRIPTION

\* String(raw.id)
StringOfId(id) == IF id.t = "num" THEN NatToString(id.n) ELSE id.s

\* raw.dsc?.trim() ?? raw.name?.trim(): the name is consulted only when dsc is
\* undefined; "" stands for a title that is undefined or empty (both falsy).
TitleOf(raw) ==
  IF raw.dsc.t = "str" THEN Trim(raw.dsc.s)
  ELSE IF raw.name.t = "str" THEN Trim(raw.name.s)
  ELSE ""

\* normalizeMenuItem: <<item>>, or << >> where the code returns null.
normalizeMenuItem(raw, category) ==
  LET title == TitleOf(raw)
  IN IF title = "" \/ ~matchesCategory(title, category) THEN << >>
     ELSE << [id          |-> StringOfId(raw.id),
              title       |-> title,
              description |-> buildDescription(raw),
              price       |-> parsePrice(raw.price),
              imageUrl    |-> IF isValidImage(raw.img) THEN raw.img.s ELSE NoImage,
              category    |-> category] >>

IdsOf(items) == {items[i].id : i \in 1..Len(items)}

\* dedupe: first occurrence of each id wins.
RECURSIVE DedupeFrom(_, _, _)
DedupeFrom(items, k, unique) ==
  IF k > Len(items) THEN unique
  ELSE IF items[k].id \in IdsOf(unique) THEN DedupeFrom(items, k + 1, unique)
  ELSE DedupeFrom(items, k + 1, Append(unique, items[k]))

\* dedupe in which a later item replaces an earlier one with the same id.
RECURSIVE DedupeLastFrom(_, _, _)
DedupeLastFrom(items, k, unique) ==
  IF k > Len(items) THEN unique
  ELSE IF \E j \in (k + 1)..Len(items) : items[j].id = items[k].id
  THEN DedupeLastFrom(items, k + 1, unique)
  ELSE DedupeLastFrom(items, k + 1, Append(unique, items[k]))

dedupeLastWins(items) == DedupeLastFrom(items, 1, << >>)

dedupe(items) == DedupeFrom(items, 1, << >>)

(***************************************************************************)
(* The upstream API: what each endpoint can answer                         *)
(***************************************************************************)
MaxPayloadLen == 2
BulkLen == 10

Endpoints ==
  UNION {{CATEGORY_ENDPOINTS[c][i] : i \in 1..Len(CATEGORY_ENDPOINTS[c])} : c \in Categories}

\* The records an endpoint serves, in the order it lists them.
ServedSeq(e) ==
  CASE e = "/burgers" ->
         << Raw(Num(1), Str("Harbor Grill"), Str("Smash Burger"), Str("$12.00"),
                Str("https://img.example/b1.jpg")),
            Raw(Num(2), Undef, Str("patty melt"), Undef, Undef),
            Raw(Str("1"), Str(" Cheeseburger "), Undef, Num(1700), Str("/b3.jpg")) >>
    [] e = "/sandwiches" ->
         << Raw(Num(3), Str("Deli"), Str("Club Sub"), Num(1100), Undef),
            Raw(Num(4), Undef, Str("Water"), Num(200), Undef) >>
    [] e = "/bbqs" ->
         << Raw(Num(3), Str("Smokehouse"), Str("Pork Wrap"), Str("15"), Undef),
            Raw(Num(5), Undef, Str("Rib Bites"), Undef, Undef),
            Raw(Num(4), Undef, Str("Chicken Wings"), Str("$9.50"), Undef) >>
    [] e = "/fried-chicken" ->
         << Raw(Num(4), Undef, Str("Hot Wings"), Num(950), Undef),
            Raw(Num(6), Undef, Str("Onion Rings"), Str("N/A"), Undef) >>
    [] e = "/porks" ->
         << Raw(Num(5), Undef, Str("Pork Rib"), Num(2100), Undef),
            Raw(Num(7), Undef, Str("pork bites"), Undef, Undef) >>
    [] e = "/drinks" ->
         << Raw(Num(6), Str("Bar"), Str("Wine Spritz"), Num(900), Undef),
            Raw(Num(7), Undef, Str("Iced Tea"), Num(400), Undef),
            Raw(Num(8), Undef, Str("Martini"), Str("market"), Undef) >>
    [] e = "/desserts" ->
         << Raw(Num(1), Undef, Str("Sweet Pie"), Num(700), Undef),
            Raw(Num(9), Undef, Str("Brownie"), Num(700), Undef) >>
    [] e = "/chocolates" ->
         << Raw(Num(9), Undef, Str("Chocolate Cake"), Num(600), Undef),
            Raw(Num(10), Undef, Str("Truffle"), Num(300), Undef) >>
    [] e = "/ice-cream" ->
         << Raw(Num(10), Undef, Str("Ice Cream Sundae"), Undef, Undef),
            Raw(Num(9), Undef, Str("sweet cream"), Str("7.00"), Undef) >>
    [] e = "/steaks" ->
         << Raw(Num(11), Str("Grill"), Str("Prime Steak"), Num(3000), Undef),
            Raw(Num(5), Undef, Str("Salmon Steak"), Num(2100), Undef) >>

Served(e) == {ServedSeq(e)[i] : i \in 1..Len(ServedSeq(e))}

\* A title every category that reads the endpoint accepts.
BulkTitle(e) ==
  CASE e = "/burgers" -> "Smash Burger"
    [] e = "/sandwiches" -> "Club Sub"
    [] e = "/bbqs" -> "Pork Wrap Bites"
    [] e = "/fried-chicken" -> "Hot Wings"
    [] e = "/porks" -> "Pork Bites"
    [] e = "/drinks" -> "Wine Spritz"
    [] e = "/desserts" -> "Sweet Pie"
    [] e = "/chocolates" -> "Chocolate Cake"
    [] e = "/ice-cream" -> "Ice Cream Cake"
    [] e = "/steaks" -> "Prime Steak"

\* A long listing: BulkLen priced records with distinct ids, dearest first.
Bulk(e) ==
  [i \in 1..BulkLen |->
     Raw(Num(100 + i), Undef, Str(BulkTitle(e)), Num(100 * (BulkLen + 1 - i)), Undef)]

\* An element the schema rejects: it has no id.
NoIdRecord == Raw(Undef, Undef, Str("Smash Club Wings Spritz Tea Pie Rib"), Num(500), Undef)

\* The first record of an endpoint with fields the schema knows (rate,
\* country) and a field it does not know.
ExtraFieldsRecord(e) ==
  [rate |-> Num(5), country |-> Str("Canada"), calories |-> Num(640)] @@ ServedSeq(e)[1]

\* The first record of an endpoint under a title no category accepts: a
\* record with the same id that normalization rejects.
RejectedTwin(e) == [ServedSeq(e)[1] EXCEPT !.dsc = Str("Water"), !.name = Undef]

\* A body: JSON that is an array of records, JSON that is not an array, or text
\* that is not JSON (an HTML error page).
ArrayBody(elems) == [json |-> TRUE, array |-> TRUE, elems |-> elems]
ObjectBody == [json |-> TRUE, array |-> FALSE, elems |-> << >>]
NotJsonBody == [json |-> FALSE, array |-> FALSE, elems |-> << >>]

Response(ok, status, body) == [ok |-> ok, status |-> status, body |-> body]

\* The array bodies an endpoint may send when one category is fetched.
Payloads(e) ==
  UNION {[1..n -> Served(e)] : n \in 0..MaxPayloadLen}
    \cup {Bulk(e), <<ServedSeq(e)[1], NoIdRecord>>, <<ExtraFieldsRecord(e)>>,
          <<RejectedTwin(e), ServedSeq(e)[1]>>}

\* The endpoints that list anything while the whole catalogue is fetched, and
\* the endpoints whose requests may then fail.
Stocked == {"/burgers", "/bbqs", "/drinks"}
Flaky == Stocked \cup {"/desserts"}

Catalogue(e) == IF e \in Stocked THEN ServedSeq(e) ELSE << >>

\* The answers the network may give to GET e during a call of
\* fetchMenuItems(arg).  A single category is fetched against every payload
\* and every failure; the whole catalogue is fetched against one fixed
\* catalogue in which each request to a flaky endpoint may fail.
Responses(arg, e) ==
  IF arg = "all"
  THEN {Response(TRUE, 200, ArrayBody(Catalogue(e)))}
         \cup (IF e \in Flaky THEN {Response(FALSE, 500, ObjectBody)} ELSE {})
  ELSE {Response(TRUE, 200, ArrayBody(p)) : p \in Payloads(e)}
         \cup {Response(TRUE, 200, ObjectBody), Response(FALSE, 500, ObjectBody),
               Response(TRUE, 200, NotJsonBody), Response(FALSE, 404, NotJsonBody)}

\* Every record an endpoint of the model can send.
RawUniverse ==
  UNION {Served(e) \cup {Bulk(e)[i] : i \in 1..BulkLen}
           \cup {ExtraFieldsRecord(e), RejectedTwin(e)} : e \in Endpoints}
    \cup {NoIdRecord}

\* normalizeMenuItem, tabulated once over the records the endpoints send.
Normalized ==
  [c \in Categories |-> [raw \in RawUniverse |-> normalizeMenuItem(raw, c)]]

\* The loop with seen.add before the test: the id of a record is taken even
\* when normalization rejects the record.
RECURSIVE NormalizeLoopReserving(_, _, _, _)
NormalizeLoopReserving(data, category, k, normalized) ==
  IF k > Len(data) THEN normalized
  ELSE IF \/ Normalized[category][data[k]] = << >>
          \/ \E j \in 1..(k - 1) : StringOfId(data[j].id) = StringOfId(data[k].id)
  THEN NormalizeLoopReserving(data, category, k + 1, normalized)
  ELSE NormalizeLoopReserving(data, category, k + 1,
                              Append(normalized, Normalized[category][data[k]][1]))

\* The loop of fetchEndpointMenuItems over parsed.data, from element k on.
RECURSIVE NormalizeLoop(_, _, _, _)
NormalizeLoop(data, category, k, normalized) ==
  IF k > Len(data) THEN normalized
  ELSE LET n == Normalized[category][data[k]]
       IN IF n = << >> \/ n[1].id \in IdsOf(normalized)
          THEN NormalizeLoop(data, category, k + 1, normalized)
          ELSE NormalizeLoop(data, category, k + 1, Append(normalized, n[1]))

(***************************************************************************)
(* JavaScript numbers as the comparators use them: a finite value, an      *)
(* infinity (v is its sign) or NaN.                                        *)
(***************************************************************************)
Fin(n)  == [k |-> "fin", v |-> n]
Inf(sg) == [k |-> "inf", v |-> sg]
NaN     == [k |-> "nan", v |-> 0]

\* price ?? Number.POSITIVE_INFINITY
\* OrPositiveInfinity with `||` in place of `??`: a price of 0 counts as missing.
OrPositiveInfinityFalsy(price) ==
  IF price.known /\ price.v # 0 THEN [k |-> "fin", v |-> price.v]
  ELSE [k |-> "inf", v |-> 1]

OrPositiveInfinity(price) == IF price.known THEN Fin(price.v) ELSE Inf(1)

\* x - y in IEEE arithmetic
Minus(x, y) ==
  IF x.k = "nan" \/ y.k = "nan" THEN NaN
  ELSE IF x.k = "fin" /\ y.k = "fin" THEN Fin(x.v - y.v)
  ELSE IF x.k = "inf" /\ y.k = "fin" THEN x
  ELSE IF x.k = "fin" /\ y.k = "inf" THEN Inf(0 - y.v)
  ELSE IF x.v = y.v THEN NaN ELSE x

\* Number.isFinite
IsFinite(x) == x.k = "fin"

\* x !== 0
NotZero(x) == ~(x.k = "fin" /\ x.v = 0)

\* The titles normalization can produce from the records the endpoints send.
Titles ==
  {Normalized[c][raw][1].title :
     <<c, raw>> \in {x \in Categories \X RawUniverse : Normalized[x[1]][x[2]] # << >>}}

\* a.localeCompare(b), tabulated once over those titles.
TitleCompare == [a \in Titles |-> [b \in Titles |-> LocaleCompare(a, b)]]

\* The comparator of fetchCategoryMenuItems' unique.sort.
CategoryCompare(a, b) ==
  LET priceDelta == Minus(OrPositiveInfinity(a.price), OrPositiveInfinity(b.price))
  IN IF NotZero(priceDelta) /\ IsFinite(priceDelta) THEN priceDelta
     ELSE Fin(TitleCompare[a.title][b.title])

\* The comparator of sortMenuItems for a set sort key.
PriceCompare(sort, a, b) ==
  LET priceA == OrPositiveInfinity(a.price)
      priceB == OrPositiveInfinity(b.price)
  IN IF sort = "price_asc" THEN Minus(priceA, priceB)
     ELSE IF sort = "price_desc" THEN Minus(priceB, priceA)
     ELSE Fin(0)

\* Array.prototype.sort's use of a comparator's result: NaN counts as +0 and
\* only the sign matters.  `by` is "category" or a sort key of sortMenuItems.
SortCompare(by, a, b) ==
  LET r == IF by = "category" THEN CategoryCompare(a, b) ELSE PriceCompare(by, a, b)
  IN IF r.k = "nan" THEN 0 ELSE IF r.k = "inf" THEN r.v ELSE Sign(r.v)

\* The comparator's answers over the elements of s: Compared(by, s)[i][j] is
\* the sign Array.prototype.sort sees when it calls compare(s[i], s[j]).  The
\* sort algorithms below work on a sequence p of positions of s.
Compared(by, s) ==
  [i \in 1..Len(s) |-> [j \in 1..Len(s) |-> SortCompare(by, s[i], s[j])]]

Reverse(p) == [i \in 1..Len(p) |-> p[Len(p) + 1 - i]]

\* Array.prototype.sort as V8 runs it on an array shorter than 64 elements:
\* the leading run is found (and reversed when strictly descending), then the
\* remaining elements are placed by binary insertion.
RECURSIVE RunLength(_, _, _, _)
RunLength(order, p, idx, descending) ==
  IF idx > Len(p) THEN idx - 1
  ELSE IF (descending /\ order[p[idx]][p[idx - 1]] >= 0)
            \/ (~descending /\ order[p[idx]][p[idx - 1]] < 0)
  THEN idx - 1
  ELSE RunLength(order, p, idx + 1, descending)

RECURSIVE BinarySearch(_, _, _, _, _)
BinarySearch(order, p, pivot, left, right) ==
  IF left >= right THEN left
  ELSE IF order[pivot][p[left + ((right - left) \div 2)]] < 0
  THEN BinarySearch(order, p, pivot, left, left + ((right - left) \div 2))
  ELSE BinarySearch(order, p, pivot, left + ((right - left) \div 2) + 1, right)

\* p with its element at position from moved to position to (to <= from).
MoveTo(p, from, to) ==
  SubSeq(p, 1, to - 1) \o <<p[from]>> \o SubSeq(p, to, from - 1)
    \o SubSeq(p, from + 1, Len(p))

RECURSIVE BinaryInsertionSort(_, _, _)
BinaryInsertionSort(order, p, start) ==
  IF start > Len(p) THEN p
  ELSE BinaryInsertionSort(order,
                           MoveTo(p, start, BinarySearch(order, p, p[start], 1, start)),
                           start + 1)

\* The leading run of p made ascending.
WithRun(p, run, descending) ==
  IF descending THEN Reverse(SubSeq(p, 1, run)) \o SubSeq(p, run + 1, Len(p)) ELSE p

TimSortRun(order, p, run, descending) ==
  BinaryInsertionSort(order, WithRun(p, run, descending), run + 1)

TimSortShort(order, p) ==
  IF Len(p) < 2 THEN p
  ELSE TimSortRun(order, p, RunLength(order, p, 3, order[p[2]][p[1]] < 0),
                  order[p[2]][p[1]] < 0)

\* Array.prototype.sort as the engines that sort short arrays by straight
\* insertion run it.
RECURSIVE InsertionPoint(_, _, _, _)
InsertionPoint(order, p, item, j) ==
  IF j >= 1 /\ order[p[j]][item] > 0 THEN InsertionPoint(order, p, item, j - 1)
  ELSE j + 1

RECURSIVE InsertionSort(_, _, _)
InsertionSort(order, p, i) ==
  IF i > Len(p) THEN p
  ELSE InsertionSort(order, MoveTo(p, i, InsertionPoint(order, p, p[i], i - 1)), i + 1)

\* The elements of s laid out as the positions p say.
Permuted(s, p) == [k \in 1..Len(s) |-> s[p[k]]]

EngineSorts(order, s, p) ==
  {Permuted(s, TimSortShort(order, p)), Permuted(s, InsertionSort(order, p, 2))}

\* The arrays Array.prototype.sort can leave: the engines agree whenever the
\* comparator orders the elements consistently, and may differ when it does
\* not (the order is then implementation-defined).
ArraySort(by, s) == EngineSorts(Compared(by, s), s, [i \in 1..Len(s) |-> i])

(***************************************************************************)
(* State                                                                   *)
(***************************************************************************)
VARIABLES
  call,      \* the promise fetchMenuItems(arg) returned to its caller
  cat,       \* per category: the run of fetchCategoryMenuItems(category)
  received,  \* per category: the responses its requests got, in request order
  requests,  \* per category: the endpoints it has requested, in request order
  jsonRead,  \* per category and answered request: was response.json() called
  items,     \* the array a caller passes to sortMenuItems / filterMenuItems
  lastCall,  \* the last call of one of them: its arguments as they were passed
  returned,  \* the array that call returned
  searchParams, \* MenuPage: the query string of the URL (useSearchParams)
  query         \* MenuPage: the state of the 'menu-items' query (useQuery)

serviceVars == <<call, cat, received, requests, jsonRead>>
utilVars == <<items, lastCall, returned>>
pageVars == <<searchParams, query>>

\* The query string of the URL: for each parameter the value
\* searchParams.get returns, null when the parameter is not there.
Params(category, sort, search, page) ==
  [category |-> category, sort |-> sort, search |-> search, page |-> page]
NoParams == Params(Null, Null, Null, Null)

\* The result of useQuery: data is undefined until a fetch has succeeded
\* (hasData FALSE), and isLoading holds during the fetch of a query that has
\* no data.
QueryResult(status, isFetching, hasData, data) ==
  [status |-> status, isFetching |-> isFetching, hasData |-> hasData, data |-> data]
InitialQuery == QueryResult("pending", TRUE, FALSE, << >>)

\* An Error object: its message and the endpoint whose request threw it ("" for
\* an error the aggregators create themselves).
Err(message, origin) == [message |-> message, origin |-> origin]
NoError == Err("", "")

\* How a call ended: it returned value, or it threw error.
Returned(v) == [ok |-> TRUE, value |-> v, error |-> NoError]
Threw(e)    == [ok |-> FALSE, value |-> << >>, error |-> e]

IdleCategory ==
  [status |-> "idle", idx |-> 0, aggregated |-> << >>, lastError |-> NoError,
   value |-> << >>, error |-> NoError]

(***************************************************************************)
(* src/lib/http.ts and the aggregators of src/services/menu.service.ts     *)
(***************************************************************************)
\* httpGet once fetch has resolved with resp: the status is checked first and
\* the body is parsed only after that.
\* What a call of httpGet leaves: how it ended, and whether response.json()
\* was called on the way.
HttpResult(ok, value, error, json) ==
  [ok |-> ok, value |-> value, error |-> error, json |-> json]

\* The message of the SyntaxError response.json() rejects with (its wording
\* is the engine's).
JsonSyntaxError == "Unexpected token in JSON"

\* httpGet that reads the body before it looks at the status.
httpGetParseFirst(resp) ==
  IF ~resp.body.json THEN HttpResult(FALSE, NotJsonBody, Err(JsonSyntaxError, ""), TRUE)
  ELSE IF ~resp.ok
  THEN HttpResult(FALSE, NotJsonBody,
                  Err("Request failed with status " \o NatToString(resp.status), ""), TRUE)
  ELSE HttpResult(TRUE, resp.body, NoError, TRUE)

httpGet(resp) ==
  IF ~resp.ok
  THEN HttpResult(FALSE, NotJsonBody,
                  Err("Request failed with status " \o NatToString(resp.status), ""), FALSE)
  ELSE IF ~resp.body.json
  THEN HttpResult(FALSE, NotJsonBody, Err(JsonSyntaxError, ""), TRUE)
  ELSE HttpResult(TRUE, resp.body, NoError, TRUE)

\* fetchEndpointMenuItems that checks only that the payload is an array and
\* leaves the elements to normalization.
fetchEndpointMenuItemsLenient(resp, endpoint, category) ==
  LET payload == httpGet(resp)
  IN IF ~payload.ok THEN Threw(Err(payload.error.message, endpoint))
     ELSE IF ~payload.value.array
     THEN Threw(Err("Failed to validate menu response for " \o category, endpoint))
     ELSE Returned(NormalizeLoop(payload.value.elems, category, 1, << >>))

\* fetchEndpointMenuItems once its request has been answered by resp.
fetchEndpointMenuItems(resp, endpoint, category) ==
  LET payload == httpGet(resp)
  IN IF ~payload.ok THEN Threw(Err(payload.error.message, endpoint))
     ELSE IF ~(payload.value.array
               /\ \A k \in 1..Len(payload.value.elems) :
                     RawMenuItemSchema(payload.value.elems[k]))
     THEN Threw(Err("Failed to validate menu response for " \o category, endpoint))
     ELSE Returned(NormalizeLoop(payload.value.elems, category, 1, << >>))

\* LoopStep with `lastError ??= error`: the first failure is the one kept.
LoopStepFirstError(aggregated, lastError, r) ==
  [aggregated |-> IF r.ok THEN aggregated \o r.value ELSE aggregated,
   lastError  |-> IF r.ok \/ lastError # NoError THEN lastError ELSE r.error]

\* One iteration of the endpoint loop of fetchCategoryMenuItems, once the
\* awaited fetchEndpointMenuItems has ended as r: try { push } catch { record }.
LoopStep(aggregated, lastError, r) ==
  [aggregated |-> IF r.ok THEN aggregated \o r.value ELSE aggregated,
   lastError  |-> IF r.ok THEN lastError ELSE r.error]

\* Limit with the bound of the slice off by one.
LimitOffByOne(sorted) ==
  SubSeq(sorted, 1,
         IF Len(sorted) < MAX_ITEMS_PER_CATEGORY + 1 THEN Len(sorted)
         ELSE MAX_ITEMS_PER_CATEGORY + 1)

\* unique.slice(0, MAX_ITEMS_PER_CATEGORY)
Limit(sorted) ==
  SubSeq(sorted, 1,
         IF Len(sorted) < MAX_ITEMS_PER_CATEGORY THEN Len(sorted)
         ELSE MAX_ITEMS_PER_CATEGORY)

\* CategoryOutcome that throws as soon as any endpoint failed, before looking
\* at the number of items.
CategoryOutcomeStrict(sorted, lastError, category) ==
  IF lastError # NoError THEN Threw(lastError)
  ELSE IF Len(sorted) = 0
  THEN Threw(Err("Menu category " \o category \o " is temporarily unavailable.", ""))
  ELSE Returned(SubSeq(sorted, 1,
                       IF Len(sorted) < MAX_ITEMS_PER_CATEGORY THEN Len(sorted)
                       ELSE MAX_ITEMS_PER_CATEGORY))

\* The end of fetchCategoryMenuItems, after the sort.
CategoryOutcome(sorted, lastError, category) ==
  LET limited == Limit(sorted)
  IN IF Len(limited) = 0
     THEN IF lastError # NoError THEN Threw(lastError)
          ELSE Threw(Err("Menu category " \o category \o " is temporarily unavailable.", ""))
     ELSE Returned(limited)

\* FlatResults with the categories laid out last to first.
RECURSIVE FlatResultsReversed(_, _)
FlatResultsReversed(c, k) ==
  IF k > Len(MENU_CATEGORIES) THEN << >>
  ELSE FlatResultsReversed(c, k + 1)
         \o (IF c[MENU_CATEGORIES[k]].status = "fulfilled" THEN c[MENU_CATEGORIES[k]].value
             ELSE << >>)

\* results.flat() over the per-category results of fetchAllMenuItems, where a
\* category that threw was replaced by [].
RECURSIVE FlatResults(_, _)
FlatResults(c, k) ==
  IF k > Len(MENU_CATEGORIES) THEN << >>
  ELSE (IF c[MENU_CATEGORIES[k]].status = "fulfilled" THEN c[MENU_CATEGORIES[k]].value
        ELSE << >>) \o FlatResults(c, k + 1)

\* CatalogOutcome without the per-category try/catch: Promise.all rejects with
\* the error of a category that threw.
CatalogOutcomeFailFast(c) ==
  IF \E x \in Categories : c[x].status = "rejected"
  THEN Threw(c[CHOOSE x \in Categories : c[x].status = "rejected"].error)
  ELSE Returned(dedupe(FlatResults(c, 1)))

\* CatalogOutcome that needs at least two items to call the catalogue usable.
CatalogOutcomeTooFew(c) ==
  LET combined == dedupe(FlatResults(c, 1))
  IN IF Len(combined) <= 1 THEN Threw(Err("Menu data is temporarily unavailable.", ""))
     ELSE Returned(combined)

\* The end of fetchAllMenuItems, after Promise.all.
CatalogOutcome(c) ==
  LET combined == dedupe(FlatResults(c, 1))
  IN IF Len(combined) = 0 THEN Threw(Err("Menu data is temporarily unavailable.", ""))
     ELSE Returned(combined)

Settle(promise, outcome) ==
  [promise EXCEPT !.status = IF outcome.ok THEN "fulfilled" ELSE "rejected",
                  !.value = outcome.value,
                  !.error = outcome.error]

\* fetchCategoryMenuItems(category) up to its first await: the first endpoint
\* is requested.
StartCategory(category) ==
  [IdleCategory EXCEPT !.status = "pending", !.idx = 1]

Args == Categories \cup {"all"}

\* Strings that are neither 'all' nor one of the seven categories: two
\* words, and two names every object inherits from Object.prototype.
ForeignStrings == {"pizza", "", "constructor", "toString"}

\* The arguments fetchMenuItems is called with: a string, nothing, or the
\* context object React Query passes to a queryFn.
CallArgs == {Str(s) : s \in Args \cup ForeignStrings} \cup {Undef, Other}

\* fetchMenuItems with the typeof test made first: 'all' is then taken for a
\* category.
DispatchTypeFirst(categoryOrContext) ==
  IF categoryOrContext.t = "str" THEN "fetchCategoryMenuItems" ELSE "fetchAllMenuItems"

\* The function fetchMenuItems hands the call to.
Dispatch(categoryOrContext) ==
  IF categoryOrContext = Str("all") THEN "fetchAllMenuItems"
  ELSE IF categoryOrContext.t = "str" THEN "fetchCategoryMenuItems"
  ELSE "fetchAllMenuItems"

\* CATEGORY_ENDPOINTS[category] for any string: CATEGORY_ENDPOINTS is an
\* object literal, so a key it does not own is looked up in Object.prototype.
\* The result is an array of endpoints, an inherited function (with its
\* declared number of parameters as length), or undefined.
Lookup(category) ==
  IF category \in Categories
  THEN [kind |-> "array", length |-> Len(CATEGORY_ENDPOINTS[category])]
  ELSE IF category \in {"constructor", "hasOwnProperty"}
  THEN [kind |-> "function", length |-> 1]
  ELSE IF category \in {"toString", "valueOf"}
  THEN [kind |-> "function", length |-> 0]
  ELSE [kind |-> "undefined", length |-> 0]

\* The message of the TypeError of `for (const endpoint of endpoints)` over a
\* value that is not iterable (its wording is the engine's).
NotIterableError == "endpoints is not iterable"

\* fetchCategoryMenuItems(category) before its first request: the guard on
\* the looked-up endpoints, and the start of the for-of loop.
Preflight(category) ==
  LET endpoints == Lookup(category)
  IN IF endpoints.kind = "undefined" \/ endpoints.length = 0
     THEN Threw(Err("Unsupported menu category: " \o category, ""))
     ELSE IF endpoints.kind # "array" THEN Threw(Err(NotIterableError, ""))
     ELSE Returned(<< >>)

\* The endpoint loop with every request issued before the first await.
IssuedAtOnce(endpoints) == endpoints

\* The requests a call of fetchCategoryMenuItems has issued when it first
\* awaits: the loop awaits inside its first iteration.
Issued(endpoints) == <<endpoints[1]>>

\* The endpoint loop that asks a failed endpoint once more before moving on.
NextEndpointRetry(idx, r, requested) ==
  IF ~r.ok /\ Len(requested) = idx THEN idx ELSE idx + 1

\* The position in endpoints the for-of loop moves to once the iteration for
\* position idx has ended as r, successful or not.
NextEndpoint(idx, r, requested) == idx + 1

\* fetchAllMenuItems that awaits each category before it starts the next:
\* only the first category is under way when the call first yields.
StartedInTurn(fn, arg) ==
  IF fn = "fetchAllMenuItems" THEN {MENU_CATEGORIES[1]}
  ELSE IF Preflight(arg).ok THEN {arg} ELSE {}

\* The categories whose fetchCategoryMenuItems has run up to its first await
\* when the call first yields: MENU_CATEGORIES.map calls the async callback
\* for every category before Promise.all is awaited.
Started(fn, arg) ==
  IF fn = "fetchAllMenuItems" THEN Categories
  ELSE IF Preflight(arg).ok THEN {arg} ELSE {}

NoPromise ==
  [status |-> "idle", arg |-> "", argType |-> "", fn |-> "", value |-> << >>,
   error |-> NoError]

\* No call of sortMenuItems / filterMenuItems yet, and no array returned.  For
\* a handler of the menu page, params is the URL it was called on.
NoCall ==
  [fn |-> "none", items |-> << >>, sort |-> "", category |-> "", search |-> "",
   page |-> 0, perPage |-> 0, value |-> Undef,
   raw |-> Raw(Undef, Undef, Undef, Undef, Undef), params |-> NoParams]
NoArray == [elems |-> << >>, fresh |-> FALSE, value |-> Undef]

Init ==
  /\ call = NoPromise
  /\ cat = [c \in Categories |-> IdleCategory]
  /\ received = [c \in Categories |-> << >>]
  /\ requests = [c \in Categories |-> << >>]
  /\ jsonRead = [c \in Categories |-> << >>]
  /\ items = << >>
  /\ lastCall = NoCall
  /\ returned = NoArray
  /\ searchParams = NoParams
  /\ query = InitialQuery

\* fetchMenuItems(categoryOrContext), up to the first await of every function
\* it starts.  A call of fetchCategoryMenuItems that throws before its first
\* request rejects the call at once.
fetchMenuItems(categoryOrContext) ==
  /\ call.status = "idle"
  /\ LET fn == Dispatch(categoryOrContext)
         arg == categoryOrContext.s
         started == Started(fn, arg)
         pending == [call EXCEPT !.status = "pending", !.arg = arg,
                                 !.argType = categoryOrContext.t, !.fn = fn]
     IN /\ call' = IF fn = "fetchCategoryMenuItems" /\ ~Preflight(arg).ok
                   THEN Settle(pending, Preflight(arg)) ELSE pending
        /\ cat' = [c \in Categories |->
                     IF c \in started THEN StartCategory(c) ELSE cat[c]]
        /\ requests' = [c \in Categories |->
                          IF c \in started THEN Issued(CATEGORY_ENDPOINTS[c])
                          ELSE requests[c]]
  /\ UNCHANGED <<received, jsonRead>>
  /\ UNCHANGED <<utilVars, pageVars>>

\* The request category c is awaiting is answered: the rest of that loop
\* iteration runs, and then either the next endpoint is requested or the
\* function finishes (dedupe, sort, slice, return or throw).  A single-category
\* call of fetchMenuItems settles with it.
EndpointSettled(c) ==
  /\ cat[c].status = "pending"
  /\ \E endpoints \in {CATEGORY_ENDPOINTS[c]} :
     \E endpoint \in {endpoints[cat[c].idx]} :
        \E resp \in Responses(IF call.fn = "fetchAllMenuItems" THEN "all" ELSE call.arg,
                              endpoint) :
          \E r \in {fetchEndpointMenuItems(resp, endpoint, c)} :
          \E local \in {LoopStep(cat[c].aggregated, cat[c].lastError, r)} :
          \E next \in {NextEndpoint(cat[c].idx, r, requests[c])} :
             /\ received' = [received EXCEPT ![c] = Append(@, resp)]
             /\ jsonRead' = [jsonRead EXCEPT ![c] = Append(@, httpGet(resp).json)]
             /\ IF next <= Len(endpoints)
                THEN /\ cat' = [cat EXCEPT ![c].idx = next,
                                           ![c].aggregated = local.aggregated,
                                           ![c].lastError = local.lastError]
                     /\ requests' = [requests EXCEPT ![c] = Append(@, endpoints[next])]
                     /\ UNCHANGED call
                ELSE \E sorted \in ArraySort("category", dedupe(local.aggregated)) :
                       \E outcome \in {CategoryOutcome(sorted, local.lastError, c)} :
                          /\ cat' = [cat EXCEPT ![c] = Settle(IdleCategory, outcome)]
                          /\ call' = IF call.fn = "fetchCategoryMenuItems"
                                     THEN Settle(call, outcome) ELSE call
                          /\ UNCHANGED requests
  /\ UNCHANGED <<utilVars, pageVars>>

\* A join that goes on only when every category has returned a list.
JoinedOnSuccess(c) == \A k \in Categories : c[k].status = "fulfilled"

\* Promise.all over the wrappers of the categories: a wrapper catches the
\* failure of its category, so the join waits for every category to settle,
\* one way or the other, and for nothing else.
Joined(c) == \A k \in Categories : c[k].status \in {"fulfilled", "rejected"}

\* Promise.all resolves once every category's wrapper has settled; the rest of
\* fetchAllMenuItems runs.
CatalogSettled ==
  /\ call.status = "pending"
  /\ call.fn = "fetchAllMenuItems"
  /\ Joined(cat)
  /\ call' = Settle(call, CatalogOutcome(cat))
  /\ UNCHANGED <<cat, received, requests, jsonRead>>
  /\ UNCHANGED <<utilVars, pageVars>>

(***************************************************************************)
(* src/lib/utils.ts: the list utilities of the menu page                   *)
(***************************************************************************)
MaxListLen == 3

\* The menu items the utilities are called on: two with the same price, two
\* without a price, one that costs nothing.
MenuItem(id, title, description, price, category) ==
  [id |-> id, title |-> title, description |-> description, price |-> price,
   imageUrl |-> NoImage, category |-> category]

MenuPool ==
  { MenuItem("1", "Smash Burger", "Featured by Smash Burger.", Price(1200), "burgers"),
    MenuItem("2", "patty melt", "patty melt from Coast Grill.", NoPrice, "burgers"),
    MenuItem("9", "Cheeseburger", FALLBACK_DESCRIPTION, Price(1200), "burgers"),
    MenuItem("6", "Wine Spritz", "Featured by Wine Spritz.", Price(900), "cocktails"),
    MenuItem("8", "Martini", "Martini from Coast Bar.", NoPrice, "cocktails"),
    MenuItem("7", "Tap Water", FALLBACK_DESCRIPTION, Price(0), "beverages") }

\* The lists of at most MaxListLen distinct items.
ItemLists ==
  UNION { {s \in [1..n -> MenuPool] : \A i, j \in 1..n : i # j => s[i] # s[j]} :
            n \in 0..MaxListLen }

\* "" stands for a filter or sort key that is undefined or empty (both falsy).
SortKeys == {"", "price_asc", "price_desc"}
FilterCategories == {"", "burgers", "cocktails"}
Searches == {"", "burger", "COAST", "burger featured", "burgerfeatured"}

\* What a call leaves behind: the caller's array as it is after the call, the
\* elements of the returned array, and whether the returned array is a new one.
CallResult(input, elems, fresh) == [items |-> input, elems |-> elems, fresh |-> fresh]

\* sortMenuItems that sorts the array it was given and returns it.
sortMenuItemsInPlace(list, sort) ==
  IF sort = "" THEN {CallResult(list, list, FALSE)}
  ELSE {CallResult(sorted, sorted, FALSE) : sorted \in ArraySort(sort, list)}

\* sortMenuItems(items, sort): every array the call can leave.
sortMenuItems(list, sort) ==
  IF sort = "" THEN {CallResult(list, list, TRUE)}
  ELSE {CallResult(list, sorted, TRUE) : sorted \in ArraySort(sort, list)}

(***************************************************************************)
(* src/lib/fallback-menu and the data of the menu page                     *)
(***************************************************************************)
ITEMS_PER_PAGE == 9

\* An item of the fallback menu: the price in hundredths; its tags are left
\* out.
Fallback(id, title, description, price, imageUrl, category) ==
  [MenuItem(id, title, description, Price(price), category) EXCEPT !.imageUrl = imageUrl]

\* FALLBACK_MENU_ITEMS, the two accented letters written without accent.
FALLBACK_MENU_ITEMS ==
  <<
     Fallback("fallback-seawall-burger", "Seawall Burger",
              "Smoked cheddar, caramelized onions, butter lettuce, charred tomato jam, brioche.",
              2300,
              "https://images.unsplash.com/photo-1550547660-d9450f859349?auto=format&fit=crop&w=1200&q=80",
              "burgers"),
     Fallback("fallback-market-club", "Market Club",
              "Roasted turkey, maple bacon, avocado aioli, heirloom tomato, grilled sourdough.",
              1800,
              "https://images.unsplash.com/photo-1540189549336-e6e99c3679fe?auto=format&fit=crop&w=1200&q=80",
              "sandwiches"),
     Fallback("fallback-harvest-risotto", "Harvest Risotto",
              "Wild mushroom ragu, roasted squash, herb pistou, shaved parmesan, puffed grains.",
              2800,
              "https://images.unsplash.com/photo-1604908177093-3d24ab9e0295?auto=format&fit=crop&w=1200&q=80",
              "mains"),
     Fallback("fallback-pacific-salmon", "Pacific Cedar Salmon",
              "Cedar roasted salmon, charred broccolini, miso butter, fingerling potato smash.",
              3400,
              "https://images.unsplash.com/photo-1612874742257-900084940aca?auto=format&fit=crop&w=1200&q=80",
              "mains"),
     Fallback("fallback-cascadian-cobb", "Cascadian Cobb",
              "Baby gem lettuce, smoked chicken, pickled beets, soft egg, blue cheese drizzle.",
              2100,
              "https://images.unsplash.com/photo-1550304943-4f24f54ddde9?auto=format&fit=crop&w=1200&q=80",
              "sides"),
     Fallback("fallback-seawall-spritz", "Seawall Spritz",
              "Citrus gin, coastal botanicals, yuzu tonic",
              1600,
              "https://images.unsplash.com/photo-1514362545857-3bc16c4c7d1b?auto=format&fit=crop&w=1200&q=80",
              "cocktails"),
     Fallback("fallback-coal-old-fashioned", "Coal Harbour Old Fashioned",
              "Barrel-aged rye, maple syrup, orange bitters",
              1700,
              "https://images.unsplash.com/photo-1581579186989-4c04b2a758ad?auto=format&fit=crop&w=1200&q=80",
              "cocktails"),
     Fallback("fallback-pacific-negroni", "Pacific Negroni",
              "BC gin, Campari, sweet vermouth",
              1500,
              "https://images.unsplash.com/photo-1536935338788-846bb9981813?auto=format&fit=crop&w=1200&q=80",
              "cocktails"),
     Fallback("fallback-yuzu-margarita", "Yuzu Margarita",
              "Reposado tequila, yuzu juice, agave",
              1600,
              "https://images.unsplash.com/photo-1615332579937-0a6e6d7e4e8a?auto=format&fit=crop&w=1200&q=80",
              "cocktails"),
     Fallback("fallback-lavender-martini", "English Bay Martini",
              "Vodka, lavender liqueur, lemon verbena",
              1700,
              "https://images.unsplash.com/photo-1541367777708-7905fe3296c0?auto=format&fit=crop&w=1200&q=80",
              "cocktails"),
     Fallback("fallback-whiskey-sour", "Maple Whiskey Sour",
              "Canadian whisky, maple syrup, lemon",
              1500,
              "https://images.unsplash.com/photo-1560512823-829485b8bf24?auto=format&fit=crop&w=1200&q=80",
              "cocktails"),
     Fallback("fallback-charred-broccolini", "Charred Broccolini",
              "Preserved lemon vinaigrette, toasted almonds, whipped ricotta, chili oil.",
              1200,
              "https://images.unsplash.com/photo-1604908177563-5dfac298d18b?auto=format&fit=crop&w=1200&q=80",
              "sides"),
     Fallback("fallback-sea-salted-fries", "Sea Salt & Herb Fries",
              "Triple-cooked kennebec potatoes, smoked garlic aioli, charred scallion salsa verde.",
              1000,
              "https://images.unsplash.com/photo-1559329007-40df8a9345d2?auto=format&fit=crop&w=1200&q=80",
              "sides"),
     Fallback("fallback-chocolate-torte", "Midnight Chocolate Torte",
              "Flourless dark chocolate, espresso ganache, candied cocoa nibs, vanilla chantilly.",
              1200,
              "https://images.unsplash.com/photo-1612872087720-bb876e2b3a2a?auto=format&fit=crop&w=1200&q=80",
              "desserts"),
     Fallback("fallback-pineapple-upside", "Pineapple Upside Creme",
              "Seared pineapple, toasted coconut crumble, vanilla custard, rum caramel.",
              1100,
              "https://images.unsplash.com/photo-1551024601-bec78aea704b?auto=format&fit=crop&w=1200&q=80",
              "desserts"),
     Fallback("fallback-coastal-lemonade", "Coastal Lemonade",
              "Cold-pressed lemon, yuzu, sea salt, rosemary, soda; available spirit-free or spiked.",
              800,
              "https://images.unsplash.com/photo-1514361892635-6e122620e5fd?auto=format&fit=crop&w=1200&q=80",
              "beverages")
  >>

\* What fetchMenuItems can resolve the query with: a short catalogue, and one
\* with a full category; both hold a cocktail of the API.
RemoteMenus ==
  { << MenuItem("1", "Smash Burger", "Featured by Smash Burger.", Price(1200), "burgers"),
       MenuItem("2", "patty melt", "patty melt from Coast Grill.", NoPrice, "burgers"),
       MenuItem("6", "Wine Spritz", "Featured by Wine Spritz.", Price(900), "cocktails"),
       MenuItem("7", "Tap Water", FALLBACK_DESCRIPTION, Price(0), "beverages") >>,
    Limit([i \in 1..BulkLen |-> Normalized["burgers"][Bulk("/burgers")[i]][1]])
      \o << MenuItem("6", "Wine Spritz", "Featured by Wine Spritz.", Price(900), "cocktails"),
            MenuItem("7", "Tap Water", FALLBACK_DESCRIPTION, Price(0), "beverages") >> }

\* The items the menu page can list, and the search texts it filters by.
PagePool ==
  {FALLBACK_MENU_ITEMS[i] : i \in 1..Len(FALLBACK_MENU_ITEMS)}
    \cup UNION {{menu[i] : i \in 1..Len(menu)} : menu \in RemoteMenus}
PageSearches == {"", "burger", "  "}

\* `${item.title} ${item.description ?? ''}`.toLowerCase().includes(search.toLowerCase());
\* the description of a MenuItem is a string.
matchesSearch(item, search) ==
  Includes(ToLowerCase(item.title \o " " \o item.description), ToLowerCase(search))

\* matchesSearch, tabulated over the items and the searches of the model.
MatchesSearch ==
  [item \in MenuPool \cup PagePool |->
     [search \in (Searches \cup PageSearches) \ {""} |-> matchesSearch(item, search)]]

\* filterMenuItems that keeps an item when either filter accepts it.
filterMenuItemsAnyOf(list, category, search) ==
  LET Keep(item) ==
        \/ (category # "" /\ item.category = category)
        \/ (search # "" /\ MatchesSearch[item][search])
        \/ (category = "" /\ search = "")
  IN CallResult(list, SelectSeq(list, Keep), TRUE)

\* filterMenuItems(items, {category, search})
filterMenuItems(list, category, search) ==
  LET Keep(item) ==
        /\ (category # "" => item.category = category)
        /\ (search # "" => MatchesSearch[item][search])
  IN CallResult(list, SelectSeq(list, Keep), TRUE)

\* The pages and page sizes paginateItems is called with.
MaxPage == 3
MaxPerPage == 2
Pages == (0 - MaxPage)..MaxPage
PerPages == 1..MaxPerPage

\* Array.prototype.slice's reading of a bound k on an array of len elements: a
\* negative bound counts from the end, and the position is kept within 0..len.
RelativeIndex(k, len) ==
  IF k < 0 THEN (IF len + k < 0 THEN 0 ELSE len + k)
  ELSE IF k > len THEN len ELSE k

\* s.slice(start, end)
Slice(s, start, end) ==
  IF RelativeIndex(start, Len(s)) >= RelativeIndex(end, Len(s)) THEN << >>
  ELSE SubSeq(s, RelativeIndex(start, Len(s)) + 1, RelativeIndex(end, Len(s)))

\* paginateItems(items, page, perPage)
paginateItems(list, page, perPage) ==
  CallResult(list, Slice(list, (page - 1) * perPage, (page - 1) * perPage + perPage), TRUE)

\* The length of the longest prefix of s that reads "digits [. digits]".
NumericPrefixLen(s) ==
  IF DigitsPrefixLen(s) < Len(s) /\ CharAt(s, DigitsPrefixLen(s) + 1) = "."
  THEN DigitsPrefixLen(s) + 1 + DigitsPrefixLen(SubSeq(s, DigitsPrefixLen(s) + 2, Len(s)))
  ELSE DigitsPrefixLen(s)

\* The numeric value of a decimal literal without sign, in hundredths; NaN when
\* body is not such a literal from its first to its last character.
UnsignedToNumber(body, sign) ==
  IF body = "Infinity" THEN Inf(sign)
  ELSE IF NumericPrefixLen(body) = Len(body) /\ ParseFloat(body).known
  THEN Fin(sign * ParseFloat(body).v)
  ELSE NaN

\* Number(s) for a string s, in hundredths: surrounding blanks are dropped, the
\* empty string is 0, an optional sign is read, and anything that is not a
\* numeric literal as a whole is NaN.  (Literals with an exponent or a radix
\* prefix, and fraction digits past the second, are not among the inputs.)
StringToNumber(s) ==
  IF Trim(s) = "" THEN Fin(0)
  ELSE IF CharAt(Trim(s), 1) = "-"
  THEN UnsignedToNumber(SubSeq(Trim(s), 2, Len(Trim(s))), -1)
  ELSE IF CharAt(Trim(s), 1) = "+"
  THEN UnsignedToNumber(SubSeq(Trim(s), 2, Len(Trim(s))), 1)
  ELSE UnsignedToNumber(Trim(s), 1)

\* The values of the `page` query parameter parsePageParam is called with.
PageParams ==
  {Null, Str(""), Str("1"), Str("2"), Str("12"), Str("abc"), Str("-1"), Str("-5"),
   Str("3.7"), Str("0.5"), Str("0"), Str(" 4 "), Str("+1.50"), Str("Infinity"),
   Str("7px")}

\* Number(value ?? '1')
PageNumber(value) == StringToNumber(IF value.t = "null" THEN "1" ELSE value.s)

\* Math.floor of a positive number counted in hundredths.
Floor(x) == x.v \div 100

\* parsePageParam(value)
parsePageParam(value) ==
  IF PageNumber(value).k = "fin" /\ PageNumber(value).v > 0
  THEN Floor(PageNumber(value))
  ELSE 1

\* parsePageParam, tabulated over the parameters of the model.
ParsedPage == [value \in PageParams |-> parsePageParam(value)]

\* The values formatCurrency is called with: null, or a number (finite ones
\* counted in hundredths of a dollar).
CurrencyValues ==
  {Null, NaN, Inf(1), Inf(-1), Fin(0), Fin(5), Fin(2450), Fin(1200), Fin(-500),
   Fin(123450)}

\* The integer part of an amount as en-CA groups it (amounts below a million).
Grouped(dollars) ==
  IF dollars < 1000 THEN NatToString(dollars)
  ELSE NatToString(dollars \div 1000) \o "," \o
       (IF dollars % 1000 < 10 THEN "00" ELSE IF dollars % 1000 < 100 THEN "0" ELSE "")
       \o NatToString(dollars % 1000)

\* The character U+221E, which Intl.NumberFormat writes for an infinity.
InfinitySign == "oo"

\* new Intl.NumberFormat('en-CA', {style: 'currency', currency: 'CAD'}).format(x)
\* for a number x that is not NaN.
FormatCAD(x) ==
  (IF x.v < 0 THEN "-" ELSE "") \o "$" \o
  (IF x.k = "inf" THEN InfinitySign
   ELSE Grouped((IF x.v < 0 THEN 0 - x.v ELSE x.v) \div 100) \o "." \o
        (IF (IF x.v < 0 THEN 0 - x.v ELSE x.v) % 100 < 10 THEN "0" ELSE "") \o
        NatToString((IF x.v < 0 THEN 0 - x.v ELSE x.v) % 100))

\* formatCurrency(value)
formatCurrency(value) ==
  IF value = Null \/ value = NaN THEN "Market Price" ELSE FormatCAD(value)

\* formatCurrency, tabulated over the values of the model.
Formatted == [value \in CurrencyValues |-> formatCurrency(value)]

\* A caller holding the array `items` calls sortMenuItems(items, sort).
SortMenuItemsCall(sort) ==
  /\ \E out \in sortMenuItems(items, sort) :
       /\ items' = out.items
       /\ returned' = [NoArray EXCEPT !.elems = out.elems, !.fresh = out.fresh]
  /\ lastCall' = [NoCall EXCEPT !.fn = "sortMenuItems", !.items = items, !.sort = sort]
  /\ UNCHANGED <<serviceVars, pageVars>>

\* A caller holding the array `items` calls filterMenuItems(items, filters).
FilterMenuItemsCall(category, search) ==
  /\ LET out == filterMenuItems(items, category, search)
     IN /\ items' = out.items
        /\ returned' = [NoArray EXCEPT !.elems = out.elems, !.fresh = out.fresh]
  /\ lastCall' = [NoCall EXCEPT !.fn = "filterMenuItems", !.items = items,
                                !.category = category, !.search = search]
  /\ UNCHANGED <<serviceVars, pageVars>>

\* A caller holding the array `items` calls paginateItems(items, page, perPage).
PaginateItemsCall(page, perPage) ==
  /\ LET out == paginateItems(items, page, perPage)
     IN /\ items' = out.items
        /\ returned' = [NoArray EXCEPT !.elems = out.elems, !.fresh = out.fresh]
  /\ lastCall' = [NoCall EXCEPT !.fn = "paginateItems", !.items = items,
                                !.page = page, !.perPage = perPage]
  /\ UNCHANGED <<serviceVars, pageVars>>

\* parsePageParam(value) is called.
ParsePageParamCall(value) ==
  /\ returned' = [NoArray EXCEPT !.value = Num(ParsedPage[value])]
  /\ lastCall' = [NoCall EXCEPT !.fn = "parsePageParam", !.value = value]
  /\ UNCHANGED items
  /\ UNCHANGED <<serviceVars, pageVars>>

\* formatCurrency(value) is called.
FormatCurrencyCall(value) ==
  /\ returned' = [NoArray EXCEPT !.value = Str(Formatted[value])]
  /\ lastCall' = [NoCall EXCEPT !.fn = "formatCurrency", !.value = value]
  /\ UNCHANGED items
  /\ UNCHANGED <<serviceVars, pageVars>>

(***************************************************************************)
(* src/pages/Home/HomePage.tsx: MenuPage                                   *)
(***************************************************************************)
\* String(n) for an integer n.
NumberToString(n) == IF n < 0 THEN "-" \o NatToString(0 - n) ELSE NatToString(n)

\* normalizeQueryParam(value) ?? '': "" stands for undefined.
normalizeQueryParam(value) ==
  IF value.t = "null" THEN ""
  ELSE IF Len(Trim(value.s)) = 0 THEN "" ELSE value.s

\* isCategory(value)
isCategory(value) ==
  /\ value.t = "str"
  /\ value.s # ""
  /\ \E i \in 1..Len(MENU_CATEGORIES) : MENU_CATEGORIES[i] = value.s

\* updateParams that leaves the page parameter as it is.
updateParamsKeepPage(params, updates) ==
  Params(IF "category" \in DOMAIN updates
           THEN (IF updates.category # "" THEN Str(updates.category) ELSE Null)
           ELSE params.category,
         IF "sort" \in DOMAIN updates
           THEN (IF updates.sort # "" THEN Str(updates.sort) ELSE Null)
           ELSE params.sort,
         IF "search" \in DOMAIN updates
           THEN (IF updates.search # "" THEN Str(updates.search) ELSE Null)
           ELSE params.search,
         params.page)

\* updateParams(updates): the parameters handed to setSearchParams.  A key of
\* updates whose value is "" (undefined or the empty string) deletes its
\* parameter.
updateParams(params, updates) ==
  Params(IF "category" \in DOMAIN updates
           THEN (IF updates.category # "" THEN Str(updates.category) ELSE Null)
           ELSE params.category,
         IF "sort" \in DOMAIN updates
           THEN (IF updates.sort # "" THEN Str(updates.sort) ELSE Null)
           ELSE params.sort,
         IF "search" \in DOMAIN updates
           THEN (IF updates.search # "" THEN Str(updates.search) ELSE Null)
           ELSE params.search,
         IF "page" \in DOMAIN updates
           THEN Str(NumberToString(updates.page))
           ELSE params.page)

\* The URL parameters as MenuPage reads them; "" stands for undefined.
categoryParam == searchParams.category
sortParam == searchParams.sort
searchParam == normalizeQueryParam(searchParams.search)
pageParam == ParsedPage[searchParams.page]
activeCategory == IF isCategory(categoryParam) THEN categoryParam.s ELSE ""
activeSort ==
  IF sortParam \in {Str("price_asc"), Str("price_desc")} THEN sortParam.s ELSE ""

\* Data preparation.
isLoading == query.isFetching /\ query.status = "pending"
isError == query.status = "error"
remoteItems == IF query.hasData THEN query.data ELSE << >>
hasRemoteData == Len(remoteItems) > 0
shouldUseFallback == ~hasRemoteData /\ ~isLoading
IsCocktail(item) == item.category = "cocktails"
IsNotCocktail(item) == item.category # "cocktails"
cocktailItems == SelectSeq(FALLBACK_MENU_ITEMS, IsCocktail)
\* The remote items, the cocktails among them too.
allRemoteItems == IF hasRemoteData THEN remoteItems ELSE << >>
nonCocktailRemoteItems ==
  IF hasRemoteData THEN SelectSeq(remoteItems, IsNotCocktail) ELSE << >>
pageItems ==
  IF hasRemoteData THEN nonCocktailRemoteItems \o cocktailItems
  ELSE IF shouldUseFallback THEN FALLBACK_MENU_ITEMS
  ELSE cocktailItems

\* Filtering and pagination.  sortMenuItems returns the filtered items in
\* another order, so their number is that of the filtered items.
filteredItems == filterMenuItems(pageItems, activeCategory, searchParam).elems
totalItems == Len(filteredItems)
\* Math.max(1, Math.ceil(totalItems / ITEMS_PER_PAGE))
totalPages ==
  IF (totalItems + ITEMS_PER_PAGE - 1) \div ITEMS_PER_PAGE < 1 THEN 1
  ELSE (totalItems + ITEMS_PER_PAGE - 1) \div ITEMS_PER_PAGE
\* Math.min(page, totalPages)
currentPage == IF pageParam < totalPages THEN pageParam ELSE totalPages

\* The effect of the last render has yet to run: React runs it before it
\* handles another event or renders again.
EffectPending == pageParam > totalPages

\* What the user can pick and type.
TabValues == {"", "burgers", "cocktails", "desserts"}
SortValues == {"", "price_asc", "price_desc"}

\* The URLs the page is opened with.
InitialParams ==
  { NoParams,
    Params(Str("burgers"), Null, Null, Str("2")),
    Params(Str("pizza"), Str("price_desc"), Str("burger"), Str("12")),
    Params(Null, Str("newest"), Str("  "), Str("0.5")),
    Params(Str("cocktails"), Str("price_asc"), Null, Str("abc")) }

\* setSearchParams(params, { replace: true }) at the end of
\* updateParams(updates): the URL is replaced, nothing else changes.
Updated(updates) ==
  /\ searchParams' = updateParams(searchParams, updates)
  /\ UNCHANGED <<items, returned, query>>
  /\ UNCHANGED serviceVars

\* onCategoryChange(nextCategory): a tab is clicked.
OnCategoryChange(nextCategory) ==
  /\ ~EffectPending
  /\ lastCall' = [NoCall EXCEPT !.fn = "onCategoryChange", !.category = nextCategory,
                                !.params = searchParams]
  /\ Updated([category |-> nextCategory, page |-> 1])

\* onSearchChange(value): the search field is edited.
OnSearchChange(value) ==
  /\ ~EffectPending
  /\ lastCall' = [NoCall EXCEPT !.fn = "onSearchChange", !.search = value,
                                !.params = searchParams]
  /\ Updated([search |-> value, page |-> 1])

\* onSortChange(nextSort): a sort order is selected.
OnSortChange(nextSort) ==
  /\ ~EffectPending
  /\ lastCall' = [NoCall EXCEPT !.fn = "onSortChange", !.sort = nextSort,
                                !.params = searchParams]
  /\ Updated([sort |-> nextSort, page |-> 1])

\* "Reset filters", shown when nothing matches.
ResetFilters ==
  /\ ~EffectPending
  /\ ~isLoading /\ ~isError /\ totalItems = 0
  /\ lastCall' = [NoCall EXCEPT !.fn = "resetFilters", !.params = searchParams]
  /\ Updated([category |-> "", search |-> "", sort |-> "", page |-> 1])

\* "Previous", shown with more than one page and disabled on page 1.
PreviousPage ==
  /\ ~EffectPending
  /\ totalPages > 1 /\ currentPage # 1
  /\ lastCall' = [NoCall EXCEPT !.fn = "previous", !.page = currentPage,
                                !.params = searchParams]
  /\ Updated([page |-> currentPage - 1])

\* "Next", shown with more than one page and disabled on the last page.
NextPage ==
  /\ ~EffectPending
  /\ totalPages > 1 /\ currentPage # totalPages
  /\ lastCall' = [NoCall EXCEPT !.fn = "next", !.page = currentPage,
                                !.params = searchParams]
  /\ Updated([page |-> currentPage + 1])

\* The effect on [page, totalPages]: a page beyond the last is corrected.
PageEffect ==
  /\ EffectPending
  /\ lastCall' = [NoCall EXCEPT !.fn = "effect", !.page = totalPages,
                                !.params = searchParams]
  /\ Updated([page |-> totalPages])

\* The fetch of the query ends: with a menu, or with an error, which leaves
\* the data of an earlier success in place.
QuerySettled ==
  /\ ~EffectPending
  /\ query.isFetching
  /\ \/ \E menu \in RemoteMenus : query' = QueryResult("success", FALSE, TRUE, menu)
     \/ query' = QueryResult("error", FALSE, query.hasData, query.data)
  /\ UNCHANGED <<items, lastCall, returned, searchParams>>
  /\ UNCHANGED serviceVars

\* The query is fetched again ("Retry", or a stale query on mount): a query
\* without data is pending again.
Refetch ==
  /\ ~EffectPending
  /\ ~query.isFetching
  /\ query' = QueryResult(IF query.hasData THEN query.status ELSE "pending",
                          TRUE, query.hasData, query.data)
  /\ UNCHANGED <<items, lastCall, returned, searchParams>>
  /\ UNCHANGED serviceVars

NextPageEvent ==
  \/ \E nextCategory \in TabValues : OnCategoryChange(nextCategory)
  \/ \E value \in PageSearches : OnSearchChange(value)
  \/ \E nextSort \in SortValues : OnSortChange(nextSort)
  \/ ResetFilters
  \/ PreviousPage
  \/ NextPage
  \/ PageEffect
  \/ QuerySettled
  \/ Refetch

\* The dsc and name fields normalizeMenuItem is called with: absent, empty,
\* blank, and texts with and without a keyword of a category.
DscInputs == {Undef, Str(""), Str("  "), Str(" Smash Burger "), Str("Iced Tea")}
NameInputs == {Undef, Str(""), Str("  "), Str("Cheeseburger "), Str("Harbor Grill")}
RawInputs ==
  {Raw(Num(1), name, dsc, Str("$12.00"), Undef) : name \in NameInputs, dsc \in DscInputs}

\* normalizeMenuItem(raw, category) is called.
NormalizeMenuItemCall(raw, category) ==
  /\ returned' = [NoArray EXCEPT !.elems = normalizeMenuItem(raw, category)]
  /\ lastCall' = [NoCall EXCEPT !.fn = "normalizeMenuItem", !.raw = raw,
                                !.category = category]
  /\ UNCHANGED items
  /\ UNCHANGED <<serviceVars, pageVars>>

\* The raw prices parsePrice is called with, numbers counted in hundredths.
PriceInputs ==
  {Num(2450), Num(0), NotFinite, Undef,
   Str("$24.50"), Str("24.5"), Str("12"), Str("$1,234.50"), Str("CA$ 9"),
   Str("$0.00"), Str("0"), Str(".5"), Str("5."), Str("-5"), Str("1.2.3"),
   Str("N/A"), Str(""), Str("."), Str("Market Price"), Str("  ")}

\* parsePrice(value) is called.
ParsePriceCall(value) ==
  /\ returned' = [NoArray EXCEPT !.value = parsePrice(value)]
  /\ lastCall' = [NoCall EXCEPT !.fn = "parsePrice", !.value = value]
  /\ UNCHANGED items
  /\ UNCHANGED <<serviceVars, pageVars>>

Next ==
  \/ \E raw \in RawInputs, category \in Categories : NormalizeMenuItemCall(raw, category)
  \/ \E value \in PriceInputs : ParsePriceCall(value)
  \/ \E arg \in CallArgs : fetchMenuItems(arg)
  \/ \E c \in Categories : EndpointSettled(c)
  \/ CatalogSettled
  \/ \E sort \in SortKeys : SortMenuItemsCall(sort)
  \/ \E category \in FilterCategories, search \in Searches :
       FilterMenuItemsCall(category, search)
  \/ \E page \in Pages, perPage \in PerPages : PaginateItemsCall(page, perPage)
  \/ \E value \in PageParams : ParsePageParamCall(value)
  \/ \E value \in CurrencyValues : FormatCurrencyCall(value)
  \/ NextPageEvent

vars == <<call, cat, received, requests, jsonRead, items, lastCall, returned,
          searchParams, query>>

Spec == Init /\ [][Next]_vars

\* One call fetchMenuItems(category), for each category.
NextCategory ==
  \/ \E arg \in Categories : fetchMenuItems(Str(arg))
  \/ \E c \in Categories : EndpointSettled(c)

SpecCategory == Init /\ [][NextCategory]_vars

\* One call fetchMenuItems('all').
NextCatalog ==
  \/ fetchMenuItems(Str("all"))
  \/ \E c \in Categories : EndpointSettled(c)
  \/ CatalogSettled

SpecCatalog == Init /\ [][NextCatalog]_vars

\* One call of fetchMenuItems with any argument.
NextDispatch ==
  \/ \E arg \in CallArgs : fetchMenuItems(arg)
  \/ \E c \in Categories : EndpointSettled(c)
  \/ CatalogSettled

SpecDispatch == Init /\ [][NextDispatch]_vars

\* One call of fetchAllMenuItems, and with it one call of
\* fetchCategoryMenuItems for each category, in a world where every request
\* is answered in the end, with success or failure, and where a continuation
\* that can run does run.
SpecLive ==
  /\ Init
  /\ [][NextCatalog]_vars
  /\ WF_vars(\E c \in Categories : EndpointSettled(c))
  /\ WF_vars(CatalogSettled)

\* Calls of the functions that turn one raw record into a menu item.
NextRecords ==
  \/ \E raw \in RawInputs, category \in Categories : NormalizeMenuItemCall(raw, category)
  \/ \E value \in PriceInputs : ParsePriceCall(value)

SpecRecords == Init /\ [][NextRecords]_vars

\* MenuPage opened with one of the URLs, its query pending.
InitPage ==
  /\ call = NoPromise
  /\ cat = [c \in Categories |-> IdleCategory]
  /\ received = [c \in Categories |-> << >>]
  /\ requests = [c \in Categories |-> << >>]
  /\ jsonRead = [c \in Categories |-> << >>]
  /\ items = << >>
  /\ lastCall = NoCall
  /\ returned = NoArray
  /\ searchParams \in InitialParams
  /\ query = InitialQuery

SpecPage == InitPage /\ [][NextPageEvent]_vars

\* Calls of the list utilities on a list of menu items.
InitUtils ==
  /\ call = NoPromise
  /\ cat = [c \in Categories |-> IdleCategory]
  /\ received = [c \in Categories |-> << >>]
  /\ requests = [c \in Categories |-> << >>]
  /\ jsonRead = [c \in Categories |-> << >>]
  /\ items \in ItemLists
  /\ lastCall = NoCall
  /\ returned = NoArray
  /\ searchParams = NoParams
  /\ query = InitialQuery

NextUtils ==
  \/ \E sort \in SortKeys : SortMenuItemsCall(sort)
  \/ \E category \in FilterCategories, search \in Searches :
       FilterMenuItemsCall(category, search)
  \/ \E page \in Pages, perPage \in PerPages : PaginateItemsCall(page, perPage)
  \/ \E value \in PageParams : ParsePageParamCall(value)
  \/ \E value \in CurrencyValues : FormatCurrencyCall(value)

SpecUtils == InitUtils /\ [][NextUtils]_vars

(***************************************************************************)
(* Properties of the aggregators                                           *)
(***************************************************************************)
SettledStatus == {"fulfilled", "rejected"}

\* Position of category c in MENU_CATEGORIES.
CategoryIndex(c) == CHOOSE i \in 1..Len(MENU_CATEGORIES) : MENU_CATEGORIES[i] = c

\* The request answered by resp succeeded: a 2xx status and a body that is an
\* array whose elements all pass the schema.
Succeeded(resp) ==
  /\ resp.ok
  /\ resp.body.array
  /\ \A k \in 1..Len(resp.body.elems) : RawMenuItemSchema(resp.body.elems[k])

\* The items normalization accepts from the body of resp for category c.
Accepted(resp, c) ==
  {Normalized[c][resp.body.elems[k]][1] :
     k \in {j \in 1..Len(resp.body.elems) : Normalized[c][resp.body.elems[j]] # << >>}}

\* The ids accepted from the successful endpoints of category c.
AcceptedIds(c) ==
  UNION {{x.id : x \in Accepted(received[c][k], c)} :
           k \in {j \in 1..Len(received[c]) : Succeeded(received[c][j])}}

\* A single-category call fetchMenuItems(c) has settled.
CategoryCallSettled(c) == call.arg = c /\ call.status \in SettledStatus

\* C1: fetchAllMenuItems resolves whenever at least one category yielded an
\* item, whatever the other categories did, and every item it returns is an
\* item of the result of a category that succeeded: nothing in it comes from
\* a category whose fetch failed.
C1_PartialCatalogSucceeds ==
  (call.arg = "all" /\ call.status \in SettledStatus
     /\ \E c \in Categories : cat[c].status = "fulfilled" /\ Len(cat[c].value) >= 1)
  => /\ call.status = "fulfilled"
     /\ \A i \in 1..Len(call.value) :
          LET c == call.value[i].category
          IN /\ cat[c].status = "fulfilled"
             /\ \E j \in 1..Len(cat[c].value) : cat[c].value[j] = call.value[i]

\* C1 witness: the catalogue call resolved although one category failed on an
\* endpoint error and another succeeded.
C1_Witness ==
  /\ call.arg = "all" /\ call.status = "fulfilled"
  /\ \E c \in Categories : cat[c].status = "rejected" /\ cat[c].error.origin # ""
  /\ \E c \in Categories : cat[c].status = "fulfilled"

\* C2: fetchAllMenuItems fails if and only if no category produced an item,
\* and the error the caller then gets is the catalog-unavailable error, not
\* the error of a category or of an endpoint.
C2_CatalogFailsIffEmpty ==
  (call.arg = "all" /\ call.status \in SettledStatus)
  => /\ call.status = "rejected"
          <=> (\A c \in Categories : cat[c].status = "rejected" \/ Len(cat[c].value) = 0)
     /\ call.status = "rejected"
          => call.error = Err("Menu data is temporarily unavailable.", "")

\* C2 witness: the catalogue call failed while some category had failed with
\* an endpoint's error and another with its own category-unavailable error.
C2_Witness ==
  /\ call.arg = "all" /\ call.status = "rejected"
  /\ \E c \in Categories : cat[c].error.origin # ""
  /\ \E c \in Categories : cat[c].status = "rejected" /\ cat[c].error.origin = ""

\* C7: whatever the order in which the categories settled, the list
\* fetchAllMenuItems returns has no id twice, holds every id some successful
\* category returned, keeps each id under the first category (in declared
\* order) that returned it, and lists the items category by category in
\* declared order, each category's items in the order that category returned.
C7_CatalogIsOrderedUnion ==
  (call.arg = "all" /\ call.status = "fulfilled")
  => LET out == call.value
         Producers(id) == {c \in Categories : cat[c].status = "fulfilled"
                                               /\ id \in IdsOf(cat[c].value)}
         Pos(item) == CHOOSE j \in 1..Len(cat[item.category].value) :
                        cat[item.category].value[j] = item
     IN /\ \A i, j \in 1..Len(out) : i # j => out[i].id # out[j].id
        /\ \A c \in Categories :
             cat[c].status = "fulfilled" => IdsOf(cat[c].value) \subseteq IdsOf(out)
        /\ \A i \in 1..Len(out) :
             /\ out[i].category \in Producers(out[i].id)
             /\ \A c \in Producers(out[i].id) :
                  CategoryIndex(out[i].category) <= CategoryIndex(c)
             /\ \E j \in 1..Len(cat[out[i].category].value) :
                  cat[out[i].category].value[j] = out[i]
        /\ \A i, j \in 1..Len(out) :
             i < j => \/ CategoryIndex(out[i].category) < CategoryIndex(out[j].category)
                      \/ /\ out[i].category = out[j].category
                         /\ Pos(out[i]) < Pos(out[j])

\* C7 witness: the catalogue call returned while two categories had both
\* returned the same id.
C7_Witness ==
  /\ call.arg = "all" /\ call.status = "fulfilled"
  /\ \E c1, c2 \in Categories :
       /\ c1 # c2
       /\ cat[c1].status = "fulfilled" /\ cat[c2].status = "fulfilled"
       /\ IdsOf(cat[c1].value) \cap IdsOf(cat[c2].value) # {}

\* C3: in a call for one category c, a failing endpoint does not stop the
\* loop (the endpoints are requested one after the other, all of them, in
\* configured order); if some endpoint succeeded with an accepted item the
\* call succeeds and every returned item was accepted from an endpoint that
\* succeeded; if every endpoint failed the call fails.
C3_PartialCategorySucceeds ==
  \A c \in Categories :
    LET endpoints == CATEGORY_ENDPOINTS[c]
        got == received[c]
    IN /\ cat[c].status = "pending"
            => requests[c] = SubSeq(endpoints, 1, Len(got) + 1)
       /\ CategoryCallSettled(c)
            => /\ requests[c] = endpoints
               /\ Len(got) = Len(endpoints)
               /\ (\E k \in 1..Len(got) : Succeeded(got[k]) /\ Accepted(got[k], c) # {})
                    => /\ call.status = "fulfilled"
                       /\ \A i \in 1..Len(call.value) :
                            \E k \in 1..Len(got) :
                              Succeeded(got[k]) /\ call.value[i] \in Accepted(got[k], c)
               /\ (\A k \in 1..Len(got) : ~Succeeded(got[k]))
                    => call.status = "rejected"

\* C3 witness: a category call succeeded although an endpoint before and an
\* endpoint after the one that delivered items failed.
C3_Witness ==
  \E c \in Categories :
    /\ call.arg = c /\ call.status = "fulfilled"
    /\ Len(received[c]) = 3
    /\ ~Succeeded(received[c][1])
    /\ Succeeded(received[c][2])
    /\ ~Succeeded(received[c][3])

\* The error an endpoint's request raises when it is answered by resp.
EndpointError(resp, endpoint, c) ==
  IF ~resp.ok THEN Err("Request failed with status " \o NatToString(resp.status), endpoint)
  ELSE IF ~resp.body.json THEN Err(JsonSyntaxError, endpoint)
  ELSE Err("Failed to validate menu response for " \o c, endpoint)

KeyBefore(a, b) ==
  \/ a.price.known /\ ~b.price.known
  \/ a.price.known /\ b.price.known /\ a.price.v < b.price.v
  \/ /\ a.price = b.price
     /\ LocaleCompare(a.title, b.title) <= 0

FirstAccepted(c) ==
  LET got == received[c]
      Slots == {<<k, m>> \in (1..Len(got)) \X (1..(BulkLen + MaxPayloadLen)) :
                  /\ Succeeded(got[k])
                  /\ m <= Len(got[k].body.elems)
                  /\ normalizeMenuItem(got[k].body.elems[m], c) # << >>}
      Item(slot) == normalizeMenuItem(got[slot[1]].body.elems[slot[2]], c)[1]
      Earlier(s1, s2) == s1[1] < s2[1] \/ (s1[1] = s2[1] /\ s1[2] < s2[2])
  IN {Item(s1) : s1 \in {s \in Slots :
                   \A s2 \in Slots : Item(s2).id = Item(s).id => ~Earlier(s2, s)}}

\* C6: a successful category call returns min(9, n) items, n being the number
\* of distinct accepted ids, and they are the first min(9, n) of the
\* deduplicated list in sorted order: each is a first-accepted item, no id
\* is returned twice, and no item left out belongs before a returned one.
C6_CategoryListCapped ==
  \A c \in Categories :
    (call.arg = c /\ call.status = "fulfilled")
    => LET n == Cardinality(AcceptedIds(c))
           out == call.value
           kept == {out[i] : i \in 1..Len(out)}
       IN /\ Len(out) >= 1
          /\ Len(out) <= 9
          /\ Len(out) = (IF n < 9 THEN n ELSE 9)
          /\ Cardinality(IdsOf(out)) = Len(out)
          /\ kept \subseteq FirstAccepted(c)
          /\ \A x \in kept : \A y \in FirstAccepted(c) \ kept : KeyBefore(x, y)

\* The part of C6 that is about the cap alone: the length is min(9, n), no id
\* is returned twice and each returned item is a first-accepted item.
C6_LengthIsCapped ==
  \A c \in Categories :
    (call.arg = c /\ call.status = "fulfilled")
    => LET n == Cardinality(AcceptedIds(c))
           out == call.value
       IN /\ Len(out) = (IF n < 9 THEN n ELSE 9)
          /\ Cardinality(IdsOf(out)) = Len(out)
          /\ {out[i] : i \in 1..Len(out)} \subseteq FirstAccepted(c)

(***************************************************************************)
(* Properties of the list utilities                                        *)
(***************************************************************************)
\* The last call was sortMenuItems with the given sort key.
Sorted(sort) == lastCall.fn = "sortMenuItems" /\ lastCall.sort = sort

\* Position of item x in list s (the lists hold no item twice).
PositionIn(s, x) == CHOOSE i \in 1..Len(s) : s[i] = x

\* s and t hold the same items, each once.
IsPermutation(s, t) ==
  /\ Len(s) = Len(t)
  /\ {s[i] : i \in 1..Len(s)} = {t[i] : i \in 1..Len(t)}

\* C8: after sortMenuItems(items, 'price_desc') the priced items come first,
\* in non-increasing price order, and every item without a price follows
\* them: no item with price null precedes an item with a known price.
C8_DescendingNullsLast ==
  Sorted("price_desc")
  => \A i, j \in 1..Len(returned.elems) :
       i < j => LET a == returned.elems[i]
                    b == returned.elems[j]
                IN /\ ~(~a.price.known /\ b.price.known)
                   /\ (a.price.known /\ b.price.known) => a.price.v >= b.price.v

\* C9: sortMenuItems(items, 'price_asc') returns a permutation of items in
\* non-decreasing price order, every item without a price after every priced
\* item, and items with equal prices or both without a price in their
\* relative input order.
C9_AscendingStable ==
  Sorted("price_asc")
  => LET in == lastCall.items
         out == returned.elems
     IN /\ IsPermutation(in, out)
        /\ \A i, j \in 1..Len(out) :
             i < j => /\ ~(~out[i].price.known /\ out[j].price.known)
                      /\ (out[i].price.known /\ out[j].price.known)
                           => out[i].price.v <= out[j].price.v
        /\ \A i, j \in 1..Len(in) :
             (i < j /\ in[i].price = in[j].price)
               => PositionIn(out, in[i]) < PositionIn(out, in[j])

\* C9 witness: an ascending sort that had to move items, of a list holding a
\* free item, two items of equal price and an item without a price.
C9_Witness ==
  /\ Sorted("price_asc")
  /\ returned.elems # lastCall.items
  /\ \E i, j, k \in 1..Len(lastCall.items) :
       LET in == lastCall.items
       IN /\ i < j
          /\ in[i].price.known /\ in[i].price.v = 0
          /\ ~in[j].price.known
          /\ in[k].price.known /\ in[k].price.v > 0

\* C10: after any call of sortMenuItems or filterMenuItems the caller's list
\* holds the elements it held when it was passed, in the same order; and with
\* an unset sort key sortMenuItems returns a new list equal to it.
C10_InputNotMutated ==
  lastCall.fn \in {"sortMenuItems", "filterMenuItems"}
  => /\ items = lastCall.items
     /\ Sorted("") => (returned.fresh /\ returned.elems = lastCall.items)

\* C10 witness: a sort returned its input in another order, and the list the
\* caller holds is the one it passed.
C10_Witness ==
  /\ lastCall.fn = "sortMenuItems"
  /\ lastCall.sort # ""
  /\ returned.elems # lastCall.items
  /\ Len(lastCall.items) >= 2
  /\ items = lastCall.items

\* Whether search is a case-insensitive substring of text.
ContainsFolded(text, search) == Includes(ToLowerCase(text), ToLowerCase(search))

\* Per item and search text: the search occurs in the title, a space and the
\* description / in the title directly followed by the description.
InSpacedText ==
  [item \in MenuPool |-> [search \in Searches |->
     ContainsFolded(item.title \o " " \o item.description, search)]]
InJoinedText ==
  [item \in MenuPool |-> [search \in Searches |->
     ContainsFolded(item.title \o item.description, search)]]

Filtered == lastCall.fn = "filterMenuItems"

\* C11 (as the code has it): filterMenuItems keeps an item if and only if
\* (category is absent or equals the item's category) and (search is absent
\* or is a case-insensitive substring of the item's title, one space, and its
\* description); the kept items stay in input order.
C11_FilterKeepsSpacedMatches ==
  Filtered
  => LET Kept(item) ==
           /\ (lastCall.category = "" \/ item.category = lastCall.category)
           /\ (lastCall.search = "" \/ InSpacedText[item][lastCall.search])
     IN returned.elems = SelectSeq(lastCall.items, Kept)

\* C11 (as stated): the same with the search text looked for in the plain
\* concatenation of title and description.
C11_FilterKeepsJoinedMatches ==
  Filtered
  => LET Kept(item) ==
           /\ (lastCall.category = "" \/ item.category = lastCall.category)
           /\ (lastCall.search = "" \/ InJoinedText[item][lastCall.search])
     IN returned.elems = SelectSeq(lastCall.items, Kept)

\* C11 witness: a filter by category and by a search text that runs from the
\* title into the description kept one item of several.
C11_Witness ==
  /\ Filtered
  /\ lastCall.category = "burgers"
  /\ lastCall.search = "burger featured"
  /\ Len(lastCall.items) = 3
  /\ Len(returned.elems) = 1

Paginated == lastCall.fn = "paginateItems"

\* C12: paginateItems(items, page, perPage) returns exactly the elements of
\* items at the (0-based) indices (page-1)*perPage .. page*perPage - 1 that
\* exist, in order; so for a page beyond the last, page 0 and every negative
\* page it returns the empty list.
C12_PageIsWindow ==
  Paginated
  => LET in == lastCall.items
         start == (lastCall.page - 1) * lastCall.perPage
         end == lastCall.page * lastCall.perPage
         Existing == {i \in start..(end - 1) : 0 <= i /\ i < Len(in)}
     IN /\ Len(returned.elems) = Cardinality(Existing)
        /\ \A k \in 1..Len(returned.elems) :
             start + k - 1 \in Existing /\ returned.elems[k] = in[start + k]

PageParsed == lastCall.fn = "parsePageParam"

\* C13: parsePageParam returns a positive integer for every input: 1 when
\* the value is absent, is not a finite number or is <= 0, and otherwise the
\* floor of the value, which is at least 1.
C13_PageIsPositive ==
  PageParsed
  => /\ returned.value.n >= 1
     /\ LET parsed == PageNumber(lastCall.value)
        IN IF lastCall.value = Null \/ parsed.k # "fin" \/ parsed.v <= 0
           THEN returned.value.n = 1
           ELSE /\ 100 * returned.value.n <= parsed.v
                /\ parsed.v < 100 * (returned.value.n + 1)

CurrencyFormatted == lastCall.fn = "formatCurrency"

\* A currency string with two decimals: a dollar sign, and a point before
\* its last two characters, which are digits.
IsTwoDecimalCurrency(text) ==
  /\ Len(text) >= 5
  /\ Includes(text, "$")
  /\ CharAt(text, Len(text) - 2) = "."
  /\ IndexIn(DigitChars, CharAt(text, Len(text) - 1)) # 0
  /\ IndexIn(DigitChars, CharAt(text, Len(text))) # 0

\* C19: formatCurrency returns 'Market Price' for null and for every number
\* that is not finite (NaN, +Infinity, -Infinity), and a two-decimal currency
\* string for every finite number.
C19_NonFiniteIsMarketPrice ==
  CurrencyFormatted
  => IF lastCall.value = Null \/ lastCall.value.k # "fin"
     THEN returned.value.s = "Market Price"
     ELSE IsTwoDecimalCurrency(returned.value.s)

\* The body of resp parsed as JSON but is not an array, or is an array with an
\* element whose id is neither a string nor a number.
InvalidPayload(resp) ==
  /\ resp.ok
  /\ resp.body.json
  /\ \/ ~resp.body.array
     \/ \E k \in 1..Len(resp.body.elems) : ~StringOrNumber(resp.body.elems[k].id)

\* The validation error of category c raised for its k-th endpoint.
ValidationError(c, k) ==
  Err("Failed to validate menu response for " \o c, requests[c][k])

\* The items accepted from the answers of category c other than the k-th.
AcceptedElsewhere(c, k) ==
  UNION {Accepted(received[c][j], c) :
           j \in {i \in 1..Len(received[c]) : i # k /\ Succeeded(received[c][i])}}

\* C14: an endpoint answer that is not an array, or that has an element
\* without a string or number id, ends in the validation error naming the
\* category and gives the category no item at all, its valid elements
\* included; an answer whose elements carry fields the schema does not know
\* is accepted and raises no error.
C14_InvalidPayloadRejectedWhole ==
  \A c \in Categories : \A k \in 1..Len(received[c]) :
    /\ InvalidPayload(received[c][k])
         => /\ (k = Len(received[c]) /\ cat[c].status = "pending")
                 => cat[c].lastError = ValidationError(c, k)
            /\ (k = Len(received[c]) /\ cat[c].status = "rejected")
                 => cat[c].error = ValidationError(c, k)
            /\ \A i \in 1..Len(cat[c].aggregated) :
                 cat[c].aggregated[i] \in AcceptedElsewhere(c, k)
            /\ \A i \in 1..Len(cat[c].value) :
                 cat[c].value[i] \in AcceptedElsewhere(c, k)
    /\ (received[c][k].ok /\ received[c][k].body.elems = <<ExtraFieldsRecord(requests[c][k])>>)
         => /\ cat[c].lastError.origin # requests[c][k]
            /\ cat[c].error.origin # requests[c][k]
            /\ cat[c].status = "pending"
                 => \A x \in Accepted(received[c][k], c) :
                      \E i \in 1..Len(cat[c].aggregated) : cat[c].aggregated[i] = x

\* C14 witness: a category resolved with the items of one endpoint after its
\* other endpoint answered with a valid element next to one without an id,
\* and the item that valid element would have made is not in the result.
C14_Witness ==
  \E c \in Categories : \E k \in 1..Len(received[c]) :
    /\ cat[c].status = "fulfilled"
    /\ Len(cat[c].value) >= 1
    /\ received[c][k].body.elems = <<ServedSeq(requests[c][k])[1], NoIdRecord>>
    /\ Normalized[c][ServedSeq(requests[c][k])[1]] # << >>
    /\ \A i \in 1..Len(cat[c].value) :
         cat[c].value[i] # Normalized[c][ServedSeq(requests[c][k])[1]][1]

\* An answer with unknown fields was accepted and its item is in the pending
\* category's list.
C14_ExtraFieldsAccepted ==
  \E c \in Categories :
    /\ cat[c].status = "pending"
    /\ Len(received[c]) = 1
    /\ received[c][1].body.elems = <<ExtraFieldsRecord(requests[c][1])>>
    /\ Len(cat[c].aggregated) = 1
    /\ cat[c].aggregated[1] \in Accepted(received[c][1], c)

\* The error httpGet throws for a response with the given status, as raised
\* for the k-th endpoint of category c.
StatusError(c, k) ==
  Err("Request failed with status " \o NatToString(received[c][k].status), requests[c][k])

\* C15: whenever an endpoint answers with a status that is not 2xx, the
\* request fails with the error that carries that status code, and the body
\* of the response is never read as JSON, whatever it holds.
C15_StatusErrorBeforeJson ==
  \A c \in Categories : \A k \in 1..Len(received[c]) :
    ~received[c][k].ok
      => /\ ~jsonRead[c][k]
         /\ (k = Len(received[c]) /\ cat[c].status = "pending")
              => cat[c].lastError = StatusError(c, k)
         /\ (k = Len(received[c]) /\ cat[c].status = "rejected")
              => cat[c].error = StatusError(c, k)

\* C15 witness: a category failed with the status error of a 404 answer whose
\* body was not JSON, after an earlier answer of it had been read as JSON.
C15_Witness ==
  \E c \in Categories :
    /\ cat[c].status = "rejected"
    /\ Len(received[c]) >= 2
    /\ jsonRead[c][1]
    /\ LET k == Len(received[c])
       IN /\ received[c][k] = Response(FALSE, 404, NotJsonBody)
          /\ ~jsonRead[c][k]
          /\ cat[c].error.message = "Request failed with status 404"

\* The call was made with the name of one of the seven categories.
CategoryStringCall == call.argType = "str" /\ call.arg \in Categories

\* The call was made with 'all', with no argument or with a context object.
WholeCatalogCall ==
  /\ call.status # "idle"
  /\ \/ call.argType = "str" /\ call.arg = "all"
     \/ call.argType \in {"undef", "other"}

\* C16: fetchMenuItems with a category string requests the endpoints of that
\* category only and ends exactly as fetchCategoryMenuItems did for it, with
\* the same list or the same error; with 'all', with no argument or with a
\* context object it starts every category and ends as fetchAllMenuItems
\* does on the categories' results.
C16_DispatchByArgument ==
  /\ CategoryStringCall
       => /\ \A c \in Categories \ {call.arg} :
                requests[c] = << >> /\ cat[c].status = "idle"
          /\ requests[call.arg] # << >>
          /\ call.status = cat[call.arg].status
          /\ call.value = cat[call.arg].value
          /\ call.error = cat[call.arg].error
  /\ WholeCatalogCall
       => /\ \A c \in Categories : requests[c] # << >>
          /\ call.status \in SettledStatus
               => /\ \A c \in Categories : cat[c].status \in SettledStatus
                  /\ call.status = "fulfilled" <=> CatalogOutcome(cat).ok
                  /\ call.value = CatalogOutcome(cat).value
                  /\ call.error = CatalogOutcome(cat).error

\* C16 witness: a call with a context object resolved with the catalogue
\* although a category had failed.
C16_Witness ==
  /\ call.argType = "other"
  /\ call.status = "fulfilled"
  /\ Len(call.value) >= 2
  /\ \E c \in Categories : cat[c].status = "rejected"

\* A call with a category string was rejected with the error of that
\* category's last endpoint.
C16_CategoryFailurePropagated ==
  /\ CategoryStringCall
  /\ call.status = "rejected"
  /\ call.error.origin # ""

\* A call without an argument was rejected as fetchAllMenuItems rejects.
C16_NoArgumentIsCatalog ==
  /\ call.argType = "undef"
  /\ call.status = "rejected"
  /\ call.error = Err("Menu data is temporarily unavailable.", "")

\* The call was made with a string that is neither 'all' nor a category.
ForeignStringCall ==
  call.argType = "str" /\ call.arg \notin Categories \cup {"all"}

\* C17: fetchCategoryMenuItems for a string that has no endpoints configured
\* fails with the error 'Unsupported menu category: <string>', and no
\* request has been issued.
C17_UnsupportedCategoryRejected ==
  ForeignStringCall
    => /\ call.status = "rejected"
       /\ call.error = Err("Unsupported menu category: " \o call.arg, "")
       /\ \A c \in Categories : requests[c] = << >>

\* What holds of every such call: it fails before any request is issued.
C17_FailsBeforeAnyRequest ==
  ForeignStringCall
    => /\ call.status = "rejected"
       /\ \A c \in Categories : requests[c] = << >>

IsPrefix(s, t) == Len(s) <= Len(t) /\ \A i \in 1..Len(s) : s[i] = t[i]

\* C18: a call of fetchCategoryMenuItems requests the endpoints of its
\* category one by one in configured order, never one of them a second time,
\* whether the earlier requests succeeded or failed, and has requested each of
\* them exactly once when it ends; this holds of every category of a
\* catalogue call.
C18_EachEndpointRequestedOnce ==
  \A c \in Categories :
    /\ IsPrefix(requests[c], CATEGORY_ENDPOINTS[c])
    /\ Len(received[c]) <= Len(requests[c])
    /\ cat[c].status \in SettledStatus
         => requests[c] = CATEGORY_ENDPOINTS[c] /\ Len(received[c]) = Len(requests[c])

\* C18 witness: a catalogue call ended after a category with three endpoints
\* had its first request fail, and every category requested each of its
\* endpoints once.
C18_Witness ==
  /\ call.fn = "fetchAllMenuItems"
  /\ call.status \in SettledStatus
  /\ \E c \in Categories :
       /\ Len(CATEGORY_ENDPOINTS[c]) = 3
       /\ ~received[c][1].ok
       /\ requests[c] = CATEGORY_ENDPOINTS[c]

\* C20 as stated: while a call of fetchCategoryMenuItems is under way, the
\* requests to all endpoints of the category have been issued.
C20_EndpointsRequestedTogether ==
  \A c \in Categories :
    cat[c].status = "pending" => requests[c] = CATEGORY_ENDPOINTS[c]

\* C20: within one call of fetchCategoryMenuItems the endpoints are
\* requested in turn: while the call is under way exactly one request is
\* unanswered, and the request to an endpoint is issued only once the
\* requests to all earlier endpoints of the category have been answered.
C20_EndpointsRequestedInTurn ==
  \A c \in Categories :
    cat[c].status = "pending"
      => /\ Len(requests[c]) = Len(received[c]) + 1
         /\ IsPrefix(requests[c], CATEGORY_ENDPOINTS[c])

\* C20 witness: a category with three endpoints has had its first request
\* answered and its second issued, and has not yet issued its third.
C20_Witness ==
  \E c \in Categories :
    /\ cat[c].status = "pending"
    /\ Len(CATEGORY_ENDPOINTS[c]) = 3
    /\ Len(received[c]) = 1
    /\ Len(requests[c]) = 2

\* C21: once fetchAllMenuItems has been called, every category has issued
\* its first request, whether or not any other category has been answered
\* or has settled, and the call itself settles only when all seven
\* categories have settled.
C21_CategoriesStartedTogether ==
  (call.fn = "fetchAllMenuItems" /\ call.status # "idle")
    => /\ \A c \in Categories : Len(requests[c]) >= 1
       /\ call.status \in SettledStatus
            => \A c \in Categories : cat[c].status \in SettledStatus

\* C21 witness: the catalogue call is under way, the first category has had
\* no answer at all, and every other category has already settled after
\* requesting each of its endpoints.
C21_Witness ==
  /\ call.fn = "fetchAllMenuItems"
  /\ call.status = "pending"
  /\ received[MENU_CATEGORIES[1]] = << >>
  /\ Len(requests[MENU_CATEGORIES[1]]) = 1
  /\ \A c \in Categories \ {MENU_CATEGORIES[1]} :
       cat[c].status \in SettledStatus /\ requests[c] = CATEGORY_ENDPOINTS[c]

\* Nothing is under way: neither the call of fetchMenuItems nor a call of
\* fetchCategoryMenuItems is waiting.
Quiescent ==
  /\ call.status # "pending"
  /\ \A c \in Categories : cat[c].status # "pending"

\* C22: when every request is answered in the end, every call of
\* fetchCategoryMenuItems that is under way and every call of fetchMenuItems
\* that is under way ends, with a list or with an error: whenever something is
\* waiting, a state follows in which nothing is.
C22_EveryCallSettles == (~Quiescent) ~> Quiescent

\* C22 witness: a catalogue call has ended after every endpoint of every
\* category was answered, some of them with a failure that made a category
\* fail.
C22_Witness ==
  /\ call.fn = "fetchAllMenuItems"
  /\ call.status \in SettledStatus
  /\ \A c \in Categories : Len(received[c]) = Len(CATEGORY_ENDPOINTS[c])
  /\ \E c \in Categories : cat[c].status = "rejected" /\ ~received[c][1].ok

\* The successful answers of category c that hold an accepted item with the
\* given id, as positions in the configured endpoint list.
ProducersOf(c, id) ==
  {k \in 1..Len(received[c]) :
     Succeeded(received[c][k]) /\ \E y \in Accepted(received[c][k], c) : y.id = id}

\* C23: the list a call of fetchCategoryMenuItems returns has no id twice,
\* and each item in it was accepted from the first endpoint, in configured
\* order, that produced its id: the items later endpoints produced for that
\* id are dropped.
C23_FirstEndpointWins ==
  \A c \in Categories :
    cat[c].status = "fulfilled"
    => /\ \A i, j \in 1..Len(cat[c].value) :
            i # j => cat[c].value[i].id # cat[c].value[j].id
       /\ \A i \in 1..Len(cat[c].value) :
            /\ ProducersOf(c, cat[c].value[i].id) # {}
            /\ \A k \in ProducersOf(c, cat[c].value[i].id) :
                 (\A j \in ProducersOf(c, cat[c].value[i].id) : k <= j)
                   => cat[c].value[i] \in Accepted(received[c][k], c)

\* C23 witness: two endpoints of a category produced different items with
\* the same id, and the list returned holds the item of the earlier one and
\* not that of the later one.
C23_Witness ==
  \E c \in Categories : \E i \in 1..Len(cat[c].value) :
    /\ cat[c].status = "fulfilled"
    /\ Cardinality(ProducersOf(c, cat[c].value[i].id)) >= 2
    /\ \E k \in ProducersOf(c, cat[c].value[i].id) :
         \E y \in Accepted(received[c][k], c) :
           /\ y.id = cat[c].value[i].id
           /\ y # cat[c].value[i]
           /\ \A j \in 1..Len(cat[c].value) : cat[c].value[j] # y

\* The list fetchEndpointMenuItems returned for the first answer of category
\* c, where the state shows it: it is the pending category's aggregate after
\* one answer, and it is, up to order, the result of a category with a single
\* endpoint when the cut to nine items did not apply.
EndpointListShown(c) ==
  /\ Len(received[c]) >= 1
  /\ Succeeded(received[c][1])
  /\ \/ cat[c].status = "pending" /\ Len(received[c]) = 1
     \/ /\ cat[c].status = "fulfilled"
        /\ Len(CATEGORY_ENDPOINTS[c]) = 1
        /\ Len(received[c][1].body.elems) <= MAX_ITEMS_PER_CATEGORY

EndpointList(c) ==
  IF cat[c].status = "pending" THEN cat[c].aggregated ELSE cat[c].value

\* The positions of the records of a payload that normalization accepts for
\* category c.
AcceptedAt(elems, c) == {m \in 1..Len(elems) : Normalized[c][elems[m]] # << >>}

\* C24: the list fetchEndpointMenuItems returns for a valid payload has no id
\* twice, the ids being the stringified raw ids; it holds, for every id some
\* accepted record has, the item of the first accepted record with that id,
\* also when a record with that id was rejected before it; and it holds
\* nothing else.
C24_EndpointListDeduplicated ==
  \A c \in Categories :
    EndpointListShown(c)
    => LET elems == received[c][1].body.elems
           out == EndpointList(c)
       IN /\ \A i, j \in 1..Len(out) : i # j => out[i].id # out[j].id
          /\ \A m \in AcceptedAt(elems, c) :
               \E i \in 1..Len(out) : out[i].id = StringOfId(elems[m].id)
          /\ \A i \in 1..Len(out) :
               \E m \in AcceptedAt(elems, c) :
                 /\ out[i] = Normalized[c][elems[m]][1]
                 /\ \A n \in AcceptedAt(elems, c) :
                      StringOfId(elems[n].id) = out[i].id => m <= n

\* C24 witness: a payload whose first record was rejected and whose second
\* record, with the same id, was accepted gave the item of the second.
C24_Witness ==
  \E c \in Categories :
    /\ EndpointListShown(c)
    /\ Len(received[c][1].body.elems) = 2
    /\ AcceptedAt(received[c][1].body.elems, c) = {2}
    /\ received[c][1].body.elems[1].id = received[c][1].body.elems[2].id
    /\ Len(EndpointList(c)) = 1

\* A payload with the raw ids 1 and "1" on different accepted records gave the
\* item of the first of them only.
C24_StringifiedIdsCollide ==
  \E c \in Categories :
    /\ EndpointListShown(c)
    /\ Len(received[c][1].body.elems) = 2
    /\ AcceptedAt(received[c][1].body.elems, c) = {1, 2}
    /\ received[c][1].body.elems[1].id = Str("1")
    /\ received[c][1].body.elems[2].id = Num(1)
    /\ Len(EndpointList(c)) = 1
    /\ EndpointList(c)[1] = Normalized[c][received[c][1].body.elems[1]][1]

\* The text of a field, trimmed, when the field has any; "" otherwise.
Usable(field) == IF field.t = "str" THEN Trim(field.s) ELSE ""

\* The title C25 describes: the trimmed dsc when that is not empty, else the
\* trimmed name, else none ("").
DescribedTitle(raw) == IF Usable(raw.dsc) # "" THEN Usable(raw.dsc) ELSE Usable(raw.name)

\* C25: normalizeMenuItem takes the title from dsc and, when dsc has no
\* non-empty trimmed text, from name: a record one of whose two fields gives
\* a title that matches the category is accepted under that title, and an
\* accepted record has that title.
C25_TitleFallsBackToName ==
  lastCall.fn = "normalizeMenuItem"
  => /\ returned.elems # << >> => returned.elems[1].title = DescribedTitle(lastCall.raw)
     /\ (DescribedTitle(lastCall.raw) # ""
          /\ matchesCategory(DescribedTitle(lastCall.raw), lastCall.category))
         => returned.elems # << >>

\* What holds of the title: it is the trimmed dsc whenever dsc is a string,
\* blank or not, and the trimmed name only when dsc is absent.
C25_TitleFromDscWhenPresent ==
  lastCall.fn = "normalizeMenuItem"
  => LET raw == lastCall.raw
         title == IF raw.dsc.t = "str" THEN Usable(raw.dsc) ELSE Usable(raw.name)
     IN returned.elems # << >>
          <=> (title # "" /\ matchesCategory(title, lastCall.category))

\* The price C27 describes for each string, in hundredths, as <<price>>, or
\* << >> for null.
DescribedPrice ==
  [s \in {v.s : v \in {p \in PriceInputs : p.t = "str"}} |->
     CASE s = "$24.50" -> <<2450>>
       [] s = "24.5" -> <<2450>>
       [] s = "12" -> <<1200>>
       [] s = "$1,234.50" -> <<123450>>
       [] s = "CA$ 9" -> <<900>>
       [] s = "$0.00" -> <<0>>
       [] s = "0" -> <<0>>
       [] s = ".5" -> <<50>>
       [] s = "5." -> <<500>>
       [] s = "-5" -> <<500>>
       [] s = "1.2.3" -> <<120>>
       [] OTHER -> << >>]

\* C27: parsePrice returns a finite number as it is, the number read from
\* what is left of a string once everything but digits and points is
\* removed, and null for an absent value, a number that is not finite and a
\* string that leaves nothing to read; null is never reported as 0.
C27_PriceOrNull ==
  lastCall.fn = "parsePrice"
  => LET value == lastCall.value
     IN /\ value.t = "num" => returned.value = Price(value.n)
        /\ value.t \in {"undef", "nonfinite"} => returned.value = NoPrice
        /\ value.t = "str"
             => returned.value =
                  (IF DescribedPrice[value.s] = << >> THEN NoPrice
                   ELSE Price(DescribedPrice[value.s][1]))
        /\ returned.value \in {NoPrice} \cup {Price(n) : n \in 0..123450}
        /\ NoPrice # Price(0)

\* C27 witness: parsePrice was called with a string that has no digit and
\* returned null.
C27_Witness ==
  /\ lastCall.fn = "parsePrice"
  /\ lastCall.value = Str("N/A")
  /\ returned.value = NoPrice

\* The title of each record the endpoints send ("" for none), and for each
\* category whether a title has one of its keywords in it, letter case
\* aside; both tabulated once.
RawTitle == [raw \in RawUniverse |-> TitleOf(raw)]
KeywordIn ==
  [c \in Categories |->
     [title \in {RawTitle[raw] : raw \in RawUniverse} |->
        \E k \in 1..Len(CATEGORY_KEYWORDS[c]) :
          ContainsFolded(title, CATEGORY_KEYWORDS[c][k])]]
HasKeywordOf(title, c) == KeywordIn[c][title]

\* The records in the successful answers to category c.
RecordsReceived(c) ==
  UNION {{received[c][k].body.elems[i] : i \in 1..Len(received[c][k].body.elems)} :
           k \in {j \in 1..Len(received[c]) : Succeeded(received[c][j])}}

\* C26: every item fetchCategoryMenuItems(c) returns has category c and a
\* non-empty title that contains a keyword of c (or c has no keywords), and
\* is the item of a received record with that title; so a /drinks record is
\* listed under cocktails only with a cocktails keyword in its title, under
\* beverages only with a beverages keyword, and under neither with neither.
C26_ItemsMatchCategory ==
  \A c \in Categories :
    cat[c].status = "fulfilled"
    => \A i \in 1..Len(cat[c].value) :
         LET item == cat[c].value[i]
         IN /\ item.category = c
            /\ item.title # ""
            /\ Len(CATEGORY_KEYWORDS[c]) = 0 \/ HasKeywordOf(item.title, c)
            /\ \E raw \in RecordsReceived(c) :
                  /\ StringOfId(raw.id) = item.id
                  /\ RawTitle[raw] = item.title

\* C26 witness: /drinks answered cocktails with a record that has keywords of
\* both categories, one that has only a beverages keyword and one that has
\* neither; the first is listed and the other two are not.
C26_Witness ==
  /\ cat["cocktails"].status = "fulfilled"
  /\ \E raw \in RecordsReceived("cocktails") :
        /\ HasKeywordOf(RawTitle[raw], "cocktails") /\ HasKeywordOf(RawTitle[raw], "beverages")
        /\ \E i \in 1..Len(cat["cocktails"].value) : cat["cocktails"].value[i].title = RawTitle[raw]
  /\ \E raw \in RecordsReceived("cocktails") :
        /\ ~HasKeywordOf(RawTitle[raw], "cocktails") /\ HasKeywordOf(RawTitle[raw], "beverages")
        /\ \A i \in 1..Len(cat["cocktails"].value) : cat["cocktails"].value[i].title # RawTitle[raw]

\* An answer of /drinks under beverages with a record that has only a
\* cocktails keyword, which is not listed.
C26_BeveragesWitness ==
  /\ cat["beverages"].status = "fulfilled"
  /\ \E raw \in RecordsReceived("beverages") :
        /\ HasKeywordOf(RawTitle[raw], "cocktails") /\ ~HasKeywordOf(RawTitle[raw], "beverages")
        /\ \A i \in 1..Len(cat["beverages"].value) : cat["beverages"].value[i].title # RawTitle[raw]

\* A /drinks record with a keyword of neither category was received under
\* each of the two and is listed under neither.
C26_NeitherWitness ==
  \E c \in {"cocktails", "beverages"} :
    /\ cat[c].status = "fulfilled"
    /\ \E raw \in RecordsReceived(c) :
          /\ ~HasKeywordOf(RawTitle[raw], "cocktails") /\ ~HasKeywordOf(RawTitle[raw], "beverages")
          /\ \A i \in 1..Len(cat[c].value) : cat[c].value[i].title # RawTitle[raw]

\* The parameters other than page are the same before and after the step.
FiltersKept ==
  /\ searchParams'.category = searchParams.category
  /\ searchParams'.search = searchParams.search
  /\ searchParams'.sort = searchParams.sort

\* C28: a change of category, of the search text or of the sort key leaves
\* the URL with page=1 in the same update; Previous and Next change the page
\* parameter and leave category, search and sort as they are; the search
\* field edited to the empty text leaves the URL without a search parameter.
C28_FiltersResetPage ==
  [][ /\ \A nextCategory \in TabValues :
           OnCategoryChange(nextCategory) => searchParams'.page = Str("1")
      /\ \A value \in PageSearches :
           OnSearchChange(value)
             => /\ searchParams'.page = Str("1")
                /\ value = "" => searchParams'.search = Null
      /\ \A nextSort \in SortValues :
           OnSortChange(nextSort) => searchParams'.page = Str("1")
      /\ PreviousPage
           => FiltersKept /\ searchParams'.page = Str(NumberToString(currentPage - 1))
      /\ NextPage
           => FiltersKept /\ searchParams'.page = Str(NumberToString(currentPage + 1))
    ]_vars

\* C28 witness: on page 2 of a list the category was changed, which left the
\* URL on page 1.
C28_Witness ==
  /\ lastCall.fn = "onCategoryChange"
  /\ lastCall.params.page = Str("2")
  /\ lastCall.params.category # searchParams.category
  /\ searchParams.page = Str("1")

\* The search text was cleared on a URL that had one, and Next was clicked
\* on a filtered and sorted list.
C28_ClearedWitness ==
  /\ lastCall.fn = "onSearchChange"
  /\ lastCall.search = ""
  /\ lastCall.params.search = Str("burger")
  /\ searchParams.search = Null

C28_NextWitness ==
  /\ lastCall.fn = "next"
  /\ lastCall.params.sort = Str("price_asc")
  /\ searchParams = [lastCall.params EXCEPT !.page = Str("2")]

\* C29: whatever the URL and the items, the page the list is sliced at lies
\* between 1 and totalPages.
C29_CurrentPageInRange == 1 <= currentPage /\ currentPage <= totalPages

\* What holds of currentPage: it is never beyond the last page, and it is
\* below 1 exactly when parsePageParam returned 0.
C29_CurrentPageAtMostLast ==
  /\ currentPage <= totalPages
  /\ totalPages >= 1
  /\ currentPage < 1 <=> pageParam = 0

\* A URL whose page lies beyond the last page is rewritten, as the next step,
\* to the last page, the other parameters kept.
C29_PageBeyondLastRewritten ==
  [][ pageParam > totalPages
        => searchParams' = [searchParams EXCEPT !.page = Str(NumberToString(totalPages))]
    ]_vars

\* The page rendered on page 0: items match the filters and none is shown.
C29_EmptyPageShown ==
  /\ totalItems > 0
  /\ currentPage = 0
  /\ paginateItems(filteredItems, currentPage, ITEMS_PER_PAGE).elems = << >>

\* Page 2 lay beyond the last page once the remote menu had arrived, and
\* the effect rewrote it.
C29_RewrittenWitness ==
  /\ lastCall.fn = "effect"
  /\ lastCall.params.page = Str("2")
  /\ hasRemoteData
  /\ searchParams.page = Str("1")

\* The items of a list, as a set.
ItemsOf(list) == {list[i] : i \in 1..Len(list)}

\* C30: the list of the page holds no cocktail of the API.  With remote data
\* it is the remote items that are not cocktails, then the cocktails of the
\* fallback menu; once the fetch has ended without data it is the fallback
\* menu; while the fetch runs and there is no data it is the cocktails of
\* the fallback menu.
C30_CocktailsFromFallback ==
  /\ \A item \in ItemsOf(pageItems) :
       item.category = "cocktails"
         => item \in ItemsOf(FALLBACK_MENU_ITEMS) /\ item \notin ItemsOf(query.data)
  /\ query.hasData
       => pageItems = SelectSeq(query.data, IsNotCocktail)
                        \o SelectSeq(FALLBACK_MENU_ITEMS, IsCocktail)
  /\ (~query.hasData /\ ~query.isFetching) => pageItems = FALLBACK_MENU_ITEMS
  /\ (~query.hasData /\ query.isFetching)
       => pageItems = SelectSeq(FALLBACK_MENU_ITEMS, IsCocktail)

\* C30 witness: the remote menu holds a cocktail, and the list of the page
\* holds the other remote items and the six cocktails of the fallback menu.
C30_Witness ==
  /\ query.hasData
  /\ \E item \in ItemsOf(query.data) : item.category = "cocktails"
  /\ \E item \in ItemsOf(query.data) : item \in ItemsOf(pageItems)
  /\ Cardinality({item \in ItemsOf(pageItems) : item.category = "cocktails"}) = 6

\* The fetch failed with no data and the whole fallback menu is listed.
C30_FallbackWitness ==
  /\ query.status = "error" /\ ~query.hasData
  /\ Len(pageItems) = 16

\* The fetch runs, there is no data, and the six cocktails are listed.
C30_LoadingWitness ==
  /\ query.status = "pending" /\ query.isFetching
  /\ Len(pageItems) = 6

====
